---------------------------- MODULE Spec2Model ----------------------------
(***************************************************************************)
(* State-machine model of smart-form-predictor: the orchestrator           *)
(* (SmartFormPredictor), the prediction engine and its cache               *)
(* (RealTimePredictionEngine), the privacy layer                           *)
(* (PrivacyPreservingLearner) and the relationship graph                   *)
(* (FieldRelationshipGraph).                                               *)
(*                                                                         *)
(* Conventions.                                                            *)
(*  - A JavaScript string is a sequence of one-character strings, so that  *)
(*    startsWith, includes, split and template concatenation are computed. *)
(*  - A JavaScript value is a tagged record: Str(s), Num(n) or JsNull.     *)
(*  - A JavaScript Map is a sequence of [key, val] entries in insertion    *)
(*    order; a Set is a duplicate-free sequence in insertion order.        *)
(*  - Privacy budgets are counted in tenths: 10 is the budget 1.0 and 1 is *)
(*    the 0.1 that every learnFromSubmission requests.  Arithmetic on them *)
(*    is exact (the code uses IEEE doubles).                               *)
(***************************************************************************)
EXTENDS Integers, Sequences, FiniteSets

VARIABLES
    usedBudget,       \* PrivacyPreservingLearner.usedBudget (tenths)
    trainingData,     \* RealTimePredictionEngine.trainingData : Map name -> list
    predictionCache,  \* RealTimePredictionEngine.predictionCache : Map key -> prediction
    patterns,         \* SmartFormPredictor.patterns : Map name -> Set of values
    models,           \* SmartFormPredictor.models : Map name -> FieldPredictionModel
    userProfile,      \* CrossSessionLearner.userProfile : Map property -> value
    nodes,            \* FieldRelationshipGraph.nodes : Map name -> node
    edges,            \* FieldRelationshipGraph.edges : Map edgeKey -> edge
    lsTraining,       \* localStorage['smart-form-training-data'] (entries)
    lsPatterns,       \* localStorage['smart-form-smart-form-patterns'] (entries)
    clock,            \* number of learn calls so far (the timestamp source)
    config,           \* SmartFormPredictor.config and the environment's storage
    fieldModel,       \* a FieldPredictionModel on its own: its trained model
    rules,            \* FieldValidator.rules : rule name -> validator
    pending,          \* microtask queue: the learnFromSubmission calls at an await
    started,          \* the records of the calls started without being awaited
    peer,             \* a second SmartFormPredictor that uses the same storage
    last              \* the last operation: its name, arguments and result

vars == <<usedBudget, trainingData, predictionCache, patterns, models,
          userProfile, nodes, edges, lsTraining, lsPatterns, clock,
          config, fieldModel, rules, pending, started, peer, last>>

-----------------------------------------------------------------------------
(* JavaScript values                                                       *)

Str(s) == [t |-> "s", s |-> s, n |-> 0]
Num(n) == [t |-> "n", s |-> <<>>, n |-> n]
JsNull == [t |-> "null", s |-> <<>>, n |-> 0]
JsUndefined == [t |-> "undefined", s |-> <<>>, n |-> 0]
Bool(b) == [t |-> "b", s |-> <<>>, n |-> IF b THEN 1 ELSE 0]
\* an object with the properties `props` (key/value entries)
Obj(props) == [t |-> "o", s |-> props, n |-> 0]

IsStr(v) == v.t = "s"
IsNum(v) == v.t = "n"

\* JavaScript truthiness of a value: 0, "", null, undefined and false are
\* falsy.
Truthy(v) ==
    \/ IsStr(v) /\ v.s # <<>>
    \/ IsNum(v) /\ v.n # 0
    \/ v.t = "b" /\ v.n = 1
    \/ v.t = "o"

-----------------------------------------------------------------------------
(* Strings as character sequences                                          *)

UpperChars ==
    <<"A","B","C","D","E","F","G","H","I","J","K","L","M",
      "N","O","P","Q","R","S","T","U","V","W","X","Y","Z">>
LowerChars ==
    <<"a","b","c","d","e","f","g","h","i","j","k","l","m",
      "n","o","p","q","r","s","t","u","v","w","x","y","z">>

LowerChar(c) ==
    IF \E i \in 1..Len(UpperChars) : UpperChars[i] = c
    THEN LowerChars[CHOOSE i \in 1..Len(UpperChars) : UpperChars[i] = c]
    ELSE c

\* String.prototype.toLowerCase
ToLowerCase(s) == [i \in 1..Len(s) |-> LowerChar(s[i])]

\* String.prototype.startsWith
StartsWith(s, p) == Len(p) <= Len(s) /\ SubSeq(s, 1, Len(p)) = p

\* String.prototype.includes
Includes(s, p) ==
    \E i \in 0..(Len(s) - Len(p)) : SubSeq(s, i + 1, i + Len(p)) = p

DigitChars == <<"0","1","2","3","4","5","6","7","8","9">>

RECURSIVE NatDigits(_)
NatDigits(n) ==
    IF n < 10 THEN <<DigitChars[n + 1]>>
    ELSE NatDigits(n \div 10) \o <<DigitChars[(n % 10) + 1]>>

\* Number.prototype.toString for an integer
NumToString(n) == IF n < 0 THEN <<"-">> \o NatDigits(0 - n) ELSE NatDigits(n)

\* value.toString()
JsToString(v) == IF IsNum(v) THEN NumToString(v.n) ELSE v.s

\* An array-index property name ("0", "7", "45"): Object.keys and
\* Object.entries list these first, in ascending numeric order.
IsIndexKey(s) ==
    /\ Len(s) >= 1
    /\ \A i \in 1..Len(s) : \E d \in 1..10 : DigitChars[d] = s[i]
    /\ (Len(s) > 1 => s[1] # "0")

RECURSIVE IndexKeyValue(_)
IndexKeyValue(s) ==
    IF s = <<>> THEN 0
    ELSE 10 * IndexKeyValue(SubSeq(s, 1, Len(s) - 1))
         + ((CHOOSE d \in 1..10 : DigitChars[d] = s[Len(s)]) - 1)

-----------------------------------------------------------------------------
(* Map and Set as insertion-ordered sequences                              *)

MapKeys(m) == [i \in 1..Len(m) |-> m[i].key]
MapHas(m, k) == \E i \in 1..Len(m) : m[i].key = k
MapIndex(m, k) == CHOOSE i \in 1..Len(m) : m[i].key = k
MapGet(m, k) == m[MapIndex(m, k)].val

\* Map.prototype.set: a new key goes last, an existing key keeps its place.
MapSet(m, k, v) ==
    IF MapHas(m, k)
    THEN [m EXCEPT ![MapIndex(m, k)].val = v]
    ELSE Append(m, [key |-> k, val |-> v])

\* Map.prototype.delete
MapDelete(m, k) == SelectSeq(m, LAMBDA e : e.key # k)

\* matrix[key] = (matrix[key] || 0) + 1
Increment(matrix, key) ==
    MapSet(matrix, key, (IF MapHas(matrix, key) THEN MapGet(matrix, key) ELSE 0) + 1)

\* { ...obj, ...props }: the properties of `props` set on `obj` one by one
RECURSIVE Spread(_, _)
Spread(obj, props) ==
    IF props = <<>> THEN obj
    ELSE Spread(MapSet(obj, props[1].key, props[1].val), Tail(props))

\* obj[key], undefined when the object has no such property
Prop(obj, key) ==
    IF obj.t = "o" /\ MapHas(obj.s, key) THEN MapGet(obj.s, key) ELSE JsUndefined

SeqHas(s, v) == \E i \in 1..Len(s) : s[i] = v

\* Set.prototype.add
SetAdd(s, v) == IF SeqHas(s, v) THEN s ELSE Append(s, v)

SeqToSet(s) == { s[i] : i \in 1..Len(s) }

-----------------------------------------------------------------------------
(* Field names and values used as inputs                                   *)

N_city == <<"c","i","t","y">>
N_age == <<"a","g","e">>
N_email == <<"e","m","a","i","l">>
N_phone == <<"p","h","o","n","e">>
N_fullName == <<"f","u","l","l","N","a","m","e">>
N_date == <<"d","a","t","e">>
N_location == <<"l","o","c","a","t","i","o","n">>
N_username == <<"u","s","e","r","n","a","m","e">>
N_firstName == <<"f","i","r","s","t","N","a","m","e">>
N_lastName == <<"l","a","s","t","N","a","m","e">>
N_address == <<"a","d","d","r","e","s","s">>
N_state == <<"s","t","a","t","e">>
N_company == <<"c","o","m","p","a","n","y">>
N_title == <<"t","i","t","l","e">>
N_deviceType == <<"d","e","v","i","c","e","T","y","p","e">>

V_Boston == <<"B","o","s","t","o","n">>
V_Bogota == <<"B","o","g","o","t","a">>
V_Bonn == <<"B","o","n","n">>
V_Bologna == <<"B","o","l","o","g","n","a">>
V_Denver == <<"D","e","n","v","e","r">>
V_Dallas == <<"D","a","l","l","a","s">>
V_mail == <<"a","@","b">>
V_BostonMA == <<"B","o","s","t","o","n",","," ","M","A">>
V_unknown == <<"u","n","k","n","o","w","n">>

\* A submission record is a sequence of [name, value] fields with distinct
\* names, in the key order of the JavaScript object.
Field(n, v) == [name |-> n, value |-> v]

RecHas(rec, n) == \E i \in 1..Len(rec) : rec[i].name = n
RecGet(rec, n) == rec[CHOOSE i \in 1..Len(rec) : rec[i].name = n].value
\* record.name as JavaScript reads it: undefined (here JsNull) when absent
RecProp(rec, n) == IF RecHas(rec, n) THEN RecGet(rec, n) ELSE JsNull
RecKeys(rec) == [i \in 1..Len(rec) |-> rec[i].name]

-----------------------------------------------------------------------------
(* PrivacyPreservingLearner                                                *)

\* this.privacyBudget = 1.0, in tenths
PrivacyBudgetTotal == 10

\* the epsilon learnFromSubmission requests: 0.1, in tenths
LearnEpsilon == 1

\* The outcomes of generateLaplaceNoise that the model distinguishes: the
\* draw is negative, zero or positive, of magnitude `scale`.
NoiseDraws == {-1, 0, 1}

\* scale = 1 / epsilon, with epsilon in tenths of the total 1.0 (rounded down)
LaplaceScale(epsilon) == PrivacyBudgetTotal \div epsilon

\* addLaplaceNoise on one record: every numeric field gets value + noise,
\* every other field is copied.  draw[i] is the draw for numeric field i.
AddLaplaceNoise(rec, epsilon, draw) ==
    [i \in 1..Len(rec) |->
        IF IsNum(rec[i].value)
        THEN Field(rec[i].name,
                   Num(rec[i].value.n + draw[i] * LaplaceScale(epsilon)))
        ELSE rec[i]]

IsSpace(c) == c = " "

RECURSIVE TrimStart(_)
TrimStart(s) ==
    IF s # <<>> /\ IsSpace(Head(s)) THEN TrimStart(Tail(s)) ELSE s

RECURSIVE TrimEnd(_)
TrimEnd(s) ==
    IF s # <<>> /\ IsSpace(s[Len(s)])
    THEN TrimEnd(SubSeq(s, 1, Len(s) - 1)) ELSE s

\* String.prototype.trim
Trim(s) == TrimEnd(TrimStart(s))

\* s.split(sep)[0] for a one-character separator
SplitFirst(s, sep) ==
    IF \E i \in 1..Len(s) : s[i] = sep
    THEN SubSeq(s, 1, (CHOOSE i \in 1..Len(s) :
                          s[i] = sep /\ \A j \in 1..(i - 1) : s[j] # sep) - 1)
    ELSE s

\* generalizeLocation: a string with a comma is cut to its first part
generalizeLocation(location) ==
    IF IsStr(location) /\ (\E i \in 1..Len(location.s) : location.s[i] = ",")
    THEN Str(Trim(SplitFirst(location.s, ",")))
    ELSE location

\* generalizeAge(age): the bucket label of a number, anything else as is
generalizeAge(age) ==
    IF IsNum(age)
    THEN (IF age.n < 18 THEN Str(<<"m","i","n","o","r">>)
          ELSE IF age.n < 30
          THEN Str(<<"y","o","u","n","g","-","a","d","u","l","t">>)
          ELSE IF age.n < 50
          THEN Str(<<"m","i","d","d","l","e","-","a","g","e","d">>)
          ELSE IF age.n < 65 THEN Str(<<"s","e","n","i","o","r">>)
          ELSE Str(<<"e","l","d","e","r","l","y">>))
    ELSE age

\* generalizeSensitiveFields that also hides the email and the phone
generalizeSensitiveFieldsMasked(rec) ==
    [i \in 1..Len(rec) |->
        IF rec[i].name = N_location
        THEN Field(rec[i].name, generalizeLocation(rec[i].value))
        ELSE IF rec[i].name \in {N_email, N_phone} /\ IsStr(rec[i].value)
        THEN Field(rec[i].name, Str(<<"*", "*", "*">>))
        ELSE rec[i]]

\* generalizeSensitiveFields on one record: only `location` is generalized
generalizeSensitiveFields(rec) ==
    [i \in 1..Len(rec) |->
        IF rec[i].name = N_location
        THEN Field(rec[i].name, generalizeLocation(rec[i].value))
        ELSE rec[i]]

\* GrantedEpsilon without the clamp to what is left of the budget
GrantedEpsilonUnclamped(used, requested) == requested

\* The epsilon learnWithPrivacy goes on with: the requested one, or what is
\* left of the budget when the request would exceed it.
GrantedEpsilon(used, requested) ==
    IF used + requested > PrivacyBudgetTotal
    THEN PrivacyBudgetTotal - used
    ELSE requested

\* learnWithPrivacy returns rawData as it is when nothing is left
BudgetExhausted(used, requested) ==
    used + requested > PrivacyBudgetTotal /\ PrivacyBudgetTotal - used <= 0

\* learnWithPrivacy with the noise computed from the requested epsilon
learnWithPrivacyRequestedNoise(rec, used, requested, draw) ==
    IF used + requested > PrivacyBudgetTotal /\ PrivacyBudgetTotal - used <= 0
    THEN [data |-> rec, used |-> used, epsilon |-> 0, passThrough |-> TRUE]
    ELSE LET granted == IF used + requested > PrivacyBudgetTotal
                        THEN PrivacyBudgetTotal - used ELSE requested
         IN  [data |-> [i \in 1..Len(rec) |->
                          IF rec[i].name = <<"l","o","c","a","t","i","o","n">>
                             /\ rec[i].value.t = "s"
                             /\ \E k \in 1..Len(rec[i].value.s) : rec[i].value.s[k] = ","
                          THEN [name |-> rec[i].name,
                                value |-> Str(Trim(SplitFirst(rec[i].value.s, ",")))]
                          ELSE IF rec[i].value.t = "n"
                          THEN [name |-> rec[i].name,
                                value |-> Num(rec[i].value.n
                                    + draw[i] * (PrivacyBudgetTotal \div requested))]
                          ELSE rec[i]],
              used |-> used + granted,
              epsilon |-> granted,
              passThrough |-> FALSE]

\* learnWithPrivacy that drops the record once the budget is exhausted
learnWithPrivacyDropsExhausted(rec, used, requested, draw) ==
    IF used + requested > PrivacyBudgetTotal /\ PrivacyBudgetTotal - used <= 0
    THEN [data |-> <<>>, used |-> used, epsilon |-> 0, passThrough |-> TRUE]
    ELSE LET granted == IF used + requested > PrivacyBudgetTotal
                        THEN PrivacyBudgetTotal - used ELSE requested
         IN  [data |-> [i \in 1..Len(rec) |->
                          IF rec[i].name = <<"l","o","c","a","t","i","o","n">>
                             /\ rec[i].value.t = "s"
                             /\ \E k \in 1..Len(rec[i].value.s) : rec[i].value.s[k] = ","
                          THEN [name |-> rec[i].name,
                                value |-> Str(Trim(SplitFirst(rec[i].value.s, ",")))]
                          ELSE IF rec[i].value.t = "n"
                          THEN [name |-> rec[i].name,
                                value |-> Num(rec[i].value.n
                                    + draw[i] * (PrivacyBudgetTotal \div granted))]
                          ELSE rec[i]],
              used |-> used + granted,
              epsilon |-> granted,
              passThrough |-> FALSE]

\* learnWithPrivacy([rec], requested) with the noise draws `draw`:
\* the record returned, the budget used afterwards and the epsilon the noise
\* was computed with (0 when the record is passed through).
learnWithPrivacy(rec, used, requested, draw) ==
    IF BudgetExhausted(used, requested)
    THEN [data |-> rec, used |-> used, epsilon |-> 0, passThrough |-> TRUE]
    ELSE LET granted == GrantedEpsilon(used, requested)
         IN  [data |-> generalizeSensitiveFields(
                           AddLaplaceNoise(rec, granted, draw)),
              used |-> used + granted,
              epsilon |-> granted,
              passThrough |-> FALSE]

\* getRemainingBudget
getRemainingBudget == PrivacyBudgetTotal - usedBudget

-----------------------------------------------------------------------------
(* RealTimePredictionEngine                                                *)

\* this.cacheSizeLimit (100 in the constructor), scaled down
cacheSizeLimit == 2

\* A form field as the engine reads it: field.name and field.value (the
\* partial input); NoField is a missing (null) field.
FormField(n, v) == [name |-> n, value |-> v]
NoField == [name |-> <<"#">>, value |-> <<"#">>]

\* A confidence is the fraction num / den.
Frac(a, b) == [num |-> a, den |-> b]
FracLeq(x, y) == x.num * y.den <= y.num * x.den
FracMin(x, y) == IF FracLeq(x, y) THEN x ELSE y

Prediction(v, c, alts, src) ==
    [value |-> v, confidence |-> c, alternatives |-> alts, source |-> src]

\* the prediction for a missing field
UnknownPrediction == Prediction(JsNull, Frac(0, 1), <<>>, "unknown")

S_userExample ==
    <<"u","s","e","r","@","e","x","a","m","p","l","e",".","c","o","m">>
S_personGmail ==
    <<"p","e","r","s","o","n","@","g","m","a","i","l",".","c","o","m">>
S_phone1 == <<"(","5","5","5",")"," ","1","2","3","-","4","5","6","7">>
S_phone2 == <<"(","5","5","5",")"," ","9","8","7","-","6","5","4","3">>
S_JohnDoe == <<"J","o","h","n"," ","D","o","e">>
S_JaneSmith == <<"J","a","n","e"," ","S","m","i","t","h">>
S_MichaelJohnson ==
    <<"M","i","c","h","a","e","l"," ","J","o","h","n","s","o","n">>

\* _getGenericPrediction with a low confidence in the default branch too
GenericPredictionLowDefault(fieldName) ==
    IF Includes(fieldName, N_email)
    THEN Prediction(Str(S_userExample), Frac(3, 10),
                    <<S_userExample, S_personGmail>>, "generic")
    ELSE IF Includes(fieldName, N_phone)
    THEN Prediction(Str(S_phone1), Frac(3, 10),
                    <<S_phone1, S_phone2>>, "generic")
    ELSE IF Includes(fieldName, N_fullName)
    THEN Prediction(Str(S_JohnDoe), Frac(2, 10),
                    <<S_JohnDoe, S_JaneSmith, S_MichaelJohnson>>, "generic")
    ELSE Prediction(JsNull, Frac(2, 10), <<>>, "generic")

\* _getGenericPrediction, by field name
GenericPrediction(fieldName) ==
    IF Includes(fieldName, N_email)
    THEN Prediction(Str(S_userExample), Frac(3, 10),
                    <<S_userExample, S_personGmail>>, "generic")
    ELSE IF Includes(fieldName, N_phone)
    THEN Prediction(Str(S_phone1), Frac(3, 10),
                    <<S_phone1, S_phone2>>, "generic")
    ELSE IF Includes(fieldName, N_fullName)
    THEN Prediction(Str(S_JohnDoe), Frac(2, 10),
                    <<S_JohnDoe, S_JaneSmith, S_MichaelJohnson>>, "generic")
    ELSE Prediction(JsNull, Frac(0, 1), <<>>, "generic")

\* The keys of the valueCounts object in the order they were first set:
\* the distinct strings of `strs` in order of first occurrence.
RECURSIVE FirstOccurrences(_)
FirstOccurrences(strs) ==
    IF strs = <<>> THEN <<>>
    ELSE LET rest == FirstOccurrences(SubSeq(strs, 1, Len(strs) - 1))
             x == strs[Len(strs)]
         IN  IF SeqHas(rest, x) THEN rest ELSE Append(rest, x)

\* ascending sort of array-index keys by numeric value
RECURSIVE SortIndexKeys(_)
SortIndexKeys(keys) ==
    IF keys = <<>> THEN <<>>
    ELSE LET m == CHOOSE i \in 1..Len(keys) :
                      \A j \in 1..Len(keys) :
                          IndexKeyValue(keys[i]) <= IndexKeyValue(keys[j])
         IN  <<keys[m]>> \o
             SortIndexKeys(SubSeq(keys, 1, m - 1) \o
                           SubSeq(keys, m + 1, Len(keys)))

\* Object.keys / Object.entries order of an object whose string keys were
\* set in the order `keys`: array-index keys ascending, then the others in
\* insertion order.
ObjectKeyOrder(keys) ==
    SortIndexKeys(SelectSeq(keys, IsIndexKey)) \o
    SelectSeq(keys, LAMBDA k : ~IsIndexKey(k))

CountOf(strs, x) == Cardinality({ i \in 1..Len(strs) : strs[i] = x })

\* the loop `if (count > maxCount)` over Object.entries(valueCounts):
\* the first key, in entry order, whose count is the largest
MostFrequentIndex(keys, strs) ==
    CHOOSE i \in 1..Len(keys) :
        /\ \A j \in 1..Len(keys) : CountOf(strs, keys[j]) <= CountOf(strs, keys[i])
        /\ \A j \in 1..(i - 1) : CountOf(strs, keys[j]) < CountOf(strs, keys[i])

Take(s, n) == SubSeq(s, 1, IF Len(s) < n THEN Len(s) ELSE n)

\* FrequencyPrediction with every counted value among the alternatives
FrequencyPredictionAllAlternatives(items, cap) ==
    LET strs == [i \in 1..Len(items) |-> JsToString(items[i].value)]
        keys == ObjectKeyOrder(FirstOccurrences(strs))
        best == MostFrequentIndex(keys, strs)
    IN  Prediction(Str(keys[best]),
                   FracMin(cap, Frac(CountOf(strs, keys[best]), Len(strs))),
                   keys,
                   "training-data")

\* The prediction built from the non-empty list `items` of training entries
\* with the confidence capped at `cap`.
FrequencyPrediction(items, cap) ==
    LET strs == [i \in 1..Len(items) |-> JsToString(items[i].value)]
        keys == ObjectKeyOrder(FirstOccurrences(strs))
        best == MostFrequentIndex(keys, strs)
    IN  Prediction(Str(keys[best]),
                   FracMin(cap, Frac(CountOf(strs, keys[best]), Len(strs))),
                   Take(keys, 5),
                   "training-data")

\* the entries that start with the partial input, ignoring case
PrefixMatches(items, partialValue) ==
    SelectSeq(items, LAMBDA item :
        /\ Truthy(item.value)
        /\ StartsWith(ToLowerCase(JsToString(item.value)),
                      ToLowerCase(partialValue)))

\* _predictFromTrainingData(field, context) on the training data `td`
predictFromTrainingData(td, field) ==
    IF ~MapHas(td, field.name) \/ MapGet(td, field.name) = <<>>
    THEN GenericPrediction(field.name)
    ELSE LET items == MapGet(td, field.name)
             matches == PrefixMatches(items, field.value)
         IN  IF field.value # <<>> /\ matches # <<>>
             THEN FrequencyPrediction(matches, Frac(95, 100))
             ELSE FrequencyPrediction(items, Frac(90, 100))

\* generateCacheKey: `${field.name}-${JSON.stringify(context)}`; `context`
\* stands for the serialized feature bundle.
generateCacheKey(field, context) ==
    IF field = NoField THEN V_unknown
    ELSE field.name \o <<"-">> \o context

\* _setCache that deletes the newest entry instead of the oldest
setCacheEvictsNewest(cache, key, value) ==
    LET room == IF Len(cache) >= cacheSizeLimit
                THEN MapDelete(cache, cache[Len(cache)].key)
                ELSE cache
    IN  MapSet(room, key, value)

\* _setCache: at the size limit the first (oldest) entry is deleted, then
\* the key is set.
setCache(cache, key, value) ==
    LET room == IF Len(cache) >= cacheSizeLimit
                THEN MapDelete(cache, cache[1].key)
                ELSE cache
    IN  MapSet(room, key, value)

\* a cache hit that moves the entry to the newest place (a true LRU)
cacheAfterHitRefresh(cache, key) ==
    Append(MapDelete(cache, key), [key |-> key, val |-> MapGet(cache, key)])

\* What a cache hit does to the cache: Map.prototype.get leaves it alone.
cacheAfterHit(cache, key) == cache

\* predictFieldValue that runs the inference without looking into the cache
predictFieldValueAlwaysInfers(td, cache, field, context) ==
    IF field = NoField
    THEN [ret |-> UnknownPrediction, cache |-> cache,
          hit |-> FALSE, computed |-> FALSE]
    ELSE LET p == predictFromTrainingData(td, field)
         IN  [ret |-> p,
              cache |-> setCache(cache, generateCacheKey(field, context), p),
              hit |-> FALSE, computed |-> TRUE]

\* predictFieldValue(field, context): the prediction returned and the cache
\* afterwards.
predictFieldValue(td, cache, field, context) ==
    IF field = NoField
    THEN [ret |-> UnknownPrediction, cache |-> cache,
          hit |-> FALSE, computed |-> FALSE]
    ELSE LET key == generateCacheKey(field, context)
         IN  IF MapHas(cache, key)
             THEN [ret |-> MapGet(cache, key),
                   cache |-> cacheAfterHit(cache, key),
                   hit |-> TRUE, computed |-> FALSE]
             ELSE LET p == predictFromTrainingData(td, field)
                  IN  [ret |-> p, cache |-> setCache(cache, key, p),
                       hit |-> FALSE, computed |-> TRUE]

\* addTrainingData that starts the field's list anew with the entry
RECURSIVE addTrainingDataReplaces(_, _, _)
addTrainingDataReplaces(td, rec, now) ==
    IF rec = <<>> THEN td
    ELSE LET f == Head(rec)
             entry == [value |-> f.value, timestamp |-> now]
         IN  addTrainingDataReplaces(MapSet(td, f.name, <<entry>>),
                                     Tail(rec), now)

\* addTrainingData: one {value, timestamp} entry per field of the record,
\* appended to the field's list.
RECURSIVE addTrainingData(_, _, _)
addTrainingData(td, rec, now) ==
    IF rec = <<>> THEN td
    ELSE LET f == Head(rec)
             old == IF MapHas(td, f.name) THEN MapGet(td, f.name) ELSE <<>>
             entry == [value |-> f.value, timestamp |-> now]
         IN  addTrainingData(MapSet(td, f.name, Append(old, entry)),
                             Tail(rec), now)

-----------------------------------------------------------------------------
(* CrossSessionLearner                                                     *)

ArrayVal(items) == [t |-> "a", items |-> items]

P_preferredNames == "preferredNames"
P_preferredLocation == "preferredLocation"
P_preferredWorkInfo == "preferredWorkInfo"
P_preferredHour == "preferredHour"
P_preferredDevice == "preferredDevice"

\* `${x}` / x || '' inside a template string
Template(v) == IF v = JsNull THEN <<>> ELSE JsToString(v)

\* extractPersonalInfoPatterns reads session.email.split and
\* session.firstName.toLowerCase when both are truthy: a TypeError unless
\* both are strings.
PersonalInfoThrows(session) ==
    /\ Truthy(RecProp(session, N_email))
    /\ Truthy(RecProp(session, N_firstName))
    /\ ~(IsStr(RecProp(session, N_email)) /\ IsStr(RecProp(session, N_firstName)))

\* learnCrossSessionPatterns([session]) followed by buildUserProfile: the
\* profile of one session filled in at hour `hour`.
sessionProfile(session, hour) ==
    LET p1 == IF Truthy(RecProp(session, N_firstName))
                 /\ Truthy(RecProp(session, N_lastName))
              THEN <<[key |-> P_preferredNames,
                      val |-> ArrayVal(<<Template(RecProp(session, N_firstName))
                                         \o <<" ">> \o
                                         Template(RecProp(session, N_lastName))>>)]>>
              ELSE <<>>
        p2 == IF Truthy(RecProp(session, N_address))
                 /\ Truthy(RecProp(session, N_city))
              THEN <<[key |-> P_preferredLocation,
                      val |-> Str(Template(RecProp(session, N_city))
                                  \o <<"-">> \o
                                  (IF Truthy(RecProp(session, N_state))
                                   THEN Template(RecProp(session, N_state))
                                   ELSE <<>>))]>>
              ELSE <<>>
        p3 == IF Truthy(RecProp(session, N_company))
                 /\ Truthy(RecProp(session, N_title))
              THEN <<[key |-> P_preferredWorkInfo,
                      val |-> Str(Template(RecProp(session, N_company))
                                  \o <<"-">> \o
                                  Template(RecProp(session, N_title)))]>>
              ELSE <<>>
        p4 == <<[key |-> P_preferredHour, val |-> Num(hour)]>>
        p5 == <<[key |-> P_preferredDevice,
                 val |-> Str(IF Truthy(RecProp(session, N_deviceType))
                             THEN Template(RecProp(session, N_deviceType))
                             ELSE V_unknown)]>>
    IN  p1 \o p2 \o p3 \o p4 \o p5

\* A session as the learner reads it: its fields and the hour of the day of
\* new Date(session.timestamp || Date.now()).
Session(fields, hour) == [fields |-> fields, hour |-> hour]

\* `${session.firstName} ${session.lastName}`
NamePattern(s) ==
    Template(RecProp(s, N_firstName)) \o <<" ">> \o Template(RecProp(s, N_lastName))

\* `${session.city}-${session.state || ''}`
LocationKey(s) ==
    Template(RecProp(s, N_city)) \o <<"-">> \o
    (IF Truthy(RecProp(s, N_state)) THEN Template(RecProp(s, N_state)) ELSE <<>>)

\* `${session.company}-${session.title}`
CompanyTitleKey(s) ==
    Template(RecProp(s, N_company)) \o <<"-">> \o Template(RecProp(s, N_title))

\* session.deviceType || 'unknown'
DeviceOf(s) ==
    IF Truthy(RecProp(s, N_deviceType)) THEN Template(RecProp(s, N_deviceType))
    ELSE V_unknown

\* extractPersonalInfoPatterns: the names Set and the locations Map, each
\* created by the first session that has its fields
RECURSIVE extractPersonalInfoPatterns(_, _)
extractPersonalInfoPatterns(p, sessions) ==
    IF sessions = <<>> THEN p
    ELSE LET s == Head(sessions).fields
             p1 == IF Truthy(RecProp(s, N_firstName)) /\ Truthy(RecProp(s, N_lastName))
                   THEN [p EXCEPT !.hasNames = TRUE,
                                  !.names = SetAdd(@, NamePattern(s))]
                   ELSE p
             p2 == IF Truthy(RecProp(s, N_address)) /\ Truthy(RecProp(s, N_city))
                   THEN [p1 EXCEPT !.hasLocations = TRUE,
                                   !.locations = Increment(@, LocationKey(s))]
                   ELSE p1
         IN  extractPersonalInfoPatterns(p2, Tail(sessions))

\* extractProfessionalPatterns: the companyTitle Map
RECURSIVE extractProfessionalPatterns(_, _)
extractProfessionalPatterns(p, sessions) ==
    IF sessions = <<>> THEN p
    ELSE LET s == Head(sessions).fields
         IN  extractProfessionalPatterns(
                 IF Truthy(RecProp(s, N_company)) /\ Truthy(RecProp(s, N_title))
                 THEN [p EXCEPT !.hasCompanyTitle = TRUE,
                                !.companyTitle = Increment(@, CompanyTitleKey(s))]
                 ELSE p,
                 Tail(sessions))

\* extractTemporalPatterns: the hourly object, keyed by the hour as a string
RECURSIVE extractTemporalPatterns(_, _)
extractTemporalPatterns(p, sessions) ==
    IF sessions = <<>> THEN p
    ELSE extractTemporalPatterns(
             [p EXCEPT !.hasHourly = TRUE,
                       !.hourly = Increment(@, NumToString(Head(sessions).hour))],
             Tail(sessions))

\* analyzeDeviceSpecificBehavior: the usage object, keyed by device
RECURSIVE analyzeDeviceSpecificBehavior(_, _)
analyzeDeviceSpecificBehavior(p, sessions) ==
    IF sessions = <<>> THEN p
    ELSE analyzeDeviceSpecificBehavior(
             [p EXCEPT !.hasUsage = TRUE,
                       !.usage = Increment(@, DeviceOf(Head(sessions).fields))],
             Tail(sessions))

\* the patterns of no session: every extractor returns {}
NoPatterns ==
    [personalInfo |-> [hasNames |-> FALSE, names |-> <<>>,
                       hasLocations |-> FALSE, locations |-> <<>>],
     professionalPatterns |-> [hasCompanyTitle |-> FALSE, companyTitle |-> <<>>],
     temporalPatterns |-> [hasHourly |-> FALSE, hourly |-> <<>>],
     deviceSpecific |-> [hasUsage |-> FALSE, usage |-> <<>>]]

\* the patterns object that learnCrossSessionPatterns builds
crossSessionPatterns(sessions) ==
    [personalInfo |->
         extractPersonalInfoPatterns(NoPatterns.personalInfo, sessions),
     professionalPatterns |->
         extractProfessionalPatterns(NoPatterns.professionalPatterns, sessions),
     temporalPatterns |->
         extractTemporalPatterns(NoPatterns.temporalPatterns, sessions),
     deviceSpecific |->
         analyzeDeviceSpecificBehavior(NoPatterns.deviceSpecific, sessions)]

\* Object.entries of an object whose keys were set in the order of `obj`
ObjectEntries(obj) ==
    LET keys == ObjectKeyOrder(MapKeys(obj))
    IN  [i \in 1..Len(keys) |-> [key |-> keys[i], val |-> MapGet(obj, keys[i])]]

\* the loop `if (count > maxCount)` over the entries: the key of the first
\* entry whose count is the largest, `none` when there is no entry
MostFrequentKey(entries, none) ==
    IF entries = <<>> THEN none
    ELSE entries[CHOOSE i \in 1..Len(entries) :
                     /\ \A j \in 1..Len(entries) : entries[j].val <= entries[i].val
                     /\ \A j \in 1..(i - 1) : entries[j].val < entries[i].val].key

\* buildUserProfile(patterns): the profile it stores and returns
buildUserProfile(pat) ==
    (IF pat.personalInfo.hasNames
     THEN <<[key |-> P_preferredNames,
             val |-> ArrayVal(pat.personalInfo.names)]>>
     ELSE <<>>) \o
    (IF pat.personalInfo.hasLocations
     THEN <<[key |-> P_preferredLocation,
             val |-> Str(MostFrequentKey(pat.personalInfo.locations, <<>>))]>>
     ELSE <<>>) \o
    (IF pat.professionalPatterns.hasCompanyTitle
     THEN <<[key |-> P_preferredWorkInfo,
             val |-> Str(MostFrequentKey(pat.professionalPatterns.companyTitle,
                                         <<>>))]>>
     ELSE <<>>) \o
    (IF pat.temporalPatterns.hasHourly
     THEN <<[key |-> P_preferredHour,
             val |-> Num(IndexKeyValue(
                         MostFrequentKey(ObjectEntries(pat.temporalPatterns.hourly),
                                         <<"0">>)))]>>
     ELSE <<>>) \o
    (IF pat.deviceSpecific.hasUsage
     THEN <<[key |-> P_preferredDevice,
             val |-> Str(MostFrequentKey(ObjectEntries(pat.deviceSpecific.usage),
                                         <<>>))]>>
     ELSE <<>>)

\* Object.assign(target, source)
RECURSIVE ObjectAssign(_, _)
ObjectAssign(target, source) ==
    IF source = <<>> THEN target
    ELSE ObjectAssign(MapSet(target, source[1].key, source[1].val), Tail(source))

\* updateUserProfile(newPatterns): in
\* Object.assign(this.userProfile, this.buildUserProfile(newPatterns)) the
\* target is read before buildUserProfile stores the new profile in
\* this.userProfile, so the merge goes into the object that was the profile
\* and the stored profile is the newly built one.
updateUserProfile(profile, newPatterns) ==
    buildUserProfile(newPatterns)

-----------------------------------------------------------------------------
(* FieldRelationshipGraph: discoverRelationships                           *)

\* the (field1, field2) pairs of the two nested forEach loops, in order
FieldPairs(fields) ==
    LET n == Len(fields)
        all == [k \in 1..(n * n) |->
                   <<fields[((k - 1) \div n) + 1], fields[((k - 1) % n) + 1]>>]
    IN  SelectSeq(all, LAMBDA p : p[1] # p[2])

\* `${field1}-${field2}`
PairKey(a, b) == a \o <<"-">> \o b

RECURSIVE CountPairs(_, _)
CountPairs(matrix, pairs) ==
    IF pairs = <<>> THEN matrix
    ELSE CountPairs(Increment(matrix, PairKey(pairs[1][1], pairs[1][2])),
                    Tail(pairs))

\* calculateCooccurrence(history)
RECURSIVE calculateCooccurrence(_, _)
calculateCooccurrence(matrix, sessions) ==
    IF sessions = <<>> THEN matrix
    ELSE calculateCooccurrence(
             CountPairs(matrix, FieldPairs(RecKeys(Head(sessions)))),
             Tail(sessions))

\* matrix[key] || 0
Counter(matrix, key) == IF MapHas(matrix, key) THEN MapGet(matrix, key) ELSE 0

\* `${currentField}->${nextField}`
ArrowKey(a, b) == a \o <<"-", ">">> \o b

RECURSIVE CountConsecutive(_, _)
CountConsecutive(matrix, fields) ==
    IF Len(fields) < 2 THEN matrix
    ELSE CountConsecutive(Increment(matrix, ArrowKey(fields[1], fields[2])),
                          Tail(fields))

\* analyzeTemporalPatterns(history)
RECURSIVE analyzeTemporalPatterns(_, _)
analyzeTemporalPatterns(matrix, sessions) ==
    IF sessions = <<>> THEN matrix
    ELSE analyzeTemporalPatterns(
             CountConsecutive(matrix, RecKeys(Head(sessions))),
             Tail(sessions))

K_usernameEmail ==
    <<"u","s","e","r","n","a","m","e","-",">","e","m","a","i","l">>

\* findValueDependencies reads session.email.split when email and username
\* are truthy: a TypeError unless email is a string.
ValueDependenciesThrows(session) ==
    /\ Truthy(RecProp(session, N_email))
    /\ Truthy(RecProp(session, N_username))
    /\ ~IsStr(RecProp(session, N_email))

\* findValueDependencies(history), for a history on which it does not throw
RECURSIVE findValueDependencies(_, _)
findValueDependencies(deps, sessions) ==
    IF sessions = <<>> THEN deps
    ELSE LET s == Head(sessions)
             hit == /\ Truthy(RecProp(s, N_email))
                    /\ Truthy(RecProp(s, N_username))
                    /\ Str(SplitFirst(RecProp(s, N_email).s, "@"))
                           = RecProp(s, N_username)
         IN  findValueDependencies(
                 IF hit THEN Increment(deps, K_usernameEmail) ELSE deps,
                 Tail(sessions))

HistoryThrows(sessions) ==
    \E i \in 1..Len(sessions) : ValueDependenciesThrows(sessions[i])

-----------------------------------------------------------------------------
(* SmartFormPredictor                                                      *)

\* config.prediction.maxSuggestions
maxSuggestions == 3

\* _detectFieldType(fieldName, value)
detectFieldType(fieldName, value) ==
    IF IsNum(value) THEN "numerical"
    ELSE IF IsStr(value)
    THEN (IF Includes(fieldName, N_email) THEN "email"
          ELSE IF Includes(fieldName, N_phone) THEN "phone"
          ELSE IF Includes(fieldName, N_date) THEN "date"
          ELSE "text")
    ELSE "generic"

\* _updatePatterns(formData)
RECURSIVE updatePatterns(_, _)
updatePatterns(pats, rec) ==
    IF rec = <<>> THEN pats
    ELSE LET f == Head(rec)
             old == IF MapHas(pats, f.name) THEN MapGet(pats, f.name) ELSE <<>>
         IN  updatePatterns(MapSet(pats, f.name, SetAdd(old, f.value)), Tail(rec))

\* new FieldPredictionModel(fieldType); `id` tells the objects apart: the
\* models of a table are numbered in the order they are constructed
NewFieldPredictionModel(fieldType, id) == [fieldType |-> fieldType, id |-> id]

\* the model loop with the `has` test left out: every field of the record
\* gets a new model
RECURSIVE updateModelTableReplaces(_, _)
updateModelTableReplaces(tbl, rec) ==
    IF rec = <<>> THEN tbl
    ELSE LET f == Head(rec)
         IN  updateModelTableReplaces(
                 MapSet(tbl, f.name,
                        NewFieldPredictionModel(
                            detectFieldType(f.name, f.value), Len(tbl) + 1)),
                 Tail(rec))

\* the model loop of _updateModels: a model is created for a field that
\* has none
RECURSIVE updateModelTable(_, _)
updateModelTable(tbl, rec) ==
    IF rec = <<>> THEN tbl
    ELSE LET f == Head(rec)
         IN  updateModelTable(
                 IF MapHas(tbl, f.name) THEN tbl
                 ELSE MapSet(tbl, f.name,
                             NewFieldPredictionModel(
                                 detectFieldType(f.name, f.value), Len(tbl) + 1)),
                 Tail(rec))

\* The loop of getSuggestions stops with a TypeError at the first stored
\* value that has no startsWith method (a number).
SuggestionsThrow(pats, fieldName) ==
    MapHas(pats, fieldName)
    /\ \E i \in 1..Len(MapGet(pats, fieldName)) : ~IsStr(MapGet(pats, fieldName)[i])

\* suggestions.slice(0, end): everything when end is undefined
Slice(s, end) == IF IsNum(end) THEN Take(s, end.n) ELSE s

\* getSuggestions(field, partialValue), when it returns
getSuggestions(pats, fieldName, partialValue) ==
    LET found == IF MapHas(pats, fieldName)
                 THEN SelectSeq(MapGet(pats, fieldName),
                                LAMBDA v : StartsWith(v.s, partialValue))
                 ELSE <<>>
    IN  Slice(found, config.maxSuggestions)

\* learnFromSubmission(formData) from _updateModels on, on the instance
\* with the collections `inst`, for the record `data` the privacy step
\* handed over: patterns, model table, profile, training data and the two
\* saves.  `threw` is set when _updateModels
\* raises a TypeError; nothing after the privacy step has then happened.
LearnEffectsOn(inst, data, hour, now) ==
    IF ValueDependenciesThrows(data) \/ PersonalInfoThrows(data)
    THEN [threw |-> TRUE, patterns |-> inst.patterns, models |-> inst.models,
          userProfile |-> inst.userProfile, trainingData |-> inst.trainingData,
          lsTraining |-> lsTraining, lsPatterns |-> lsPatterns]
    ELSE LET pats == updatePatterns(inst.patterns, data)
             td == addTrainingData(inst.trainingData, data, now)
         IN  [threw |-> FALSE,
              patterns |-> pats,
              models |-> updateModelTable(inst.models, data),
              userProfile |-> sessionProfile(data, hour),
              trainingData |-> td,
              lsTraining |-> IF config.storage THEN td ELSE lsTraining,
              lsPatterns |-> IF config.storage THEN pats ELSE lsPatterns]

\* the same on this instance
LearnEffects(data, hour, now) ==
    LearnEffectsOn([patterns |-> patterns, models |-> models,
                    userProfile |-> userProfile, trainingData |-> trainingData],
                   data, hour, now)

-----------------------------------------------------------------------------
(* FieldPredictionModel                                                    *)

\* x + y on fractions
FracAdd(x, y) == Frac(x.num * y.den + y.num * x.den, x.den * y.den)

\* calculateSimilarity(context1, context2): of the keys of context1 that
\* context2 has too, the fraction whose values are equal; 0 without any
calculateSimilarity(context1, context2) ==
    LET shared == SelectSeq(context1, LAMBDA e : MapHas(context2, e.key))
        same == SelectSeq(shared, LAMBDA e : MapGet(context2, e.key) = e.val)
    IN  IF Len(shared) > 0 THEN Frac(Len(same), Len(shared)) ELSE Frac(0, 1)

\* const threshold = 0.7
SimilarityThreshold == Frac(7, 10)

\* findSimilarContexts(context, features, labels): {similarity, label} of
\* the examples at or over the threshold, in order
RECURSIVE findSimilarContexts(_, _, _)
findSimilarContexts(context, features, labels) ==
    IF features = <<>> THEN <<>>
    ELSE LET similarity == calculateSimilarity(context, Head(features))
             rest == findSimilarContexts(context, Tail(features), Tail(labels))
         IN  IF FracLeq(SimilarityThreshold, similarity)
             THEN <<[similarity |-> similarity, label |-> Head(labels)]>> \o rest
             ELSE rest

\* the loop of majorityVote with every match counted as one vote
RECURSIVE VoteLoopUnweighted(_, _, _, _)
VoteLoopUnweighted(matches, voteCount, maxVotes, winner) ==
    IF matches = <<>> THEN winner
    ELSE LET label == Head(matches).label
             sum == FracAdd(IF MapHas(voteCount, label)
                            THEN MapGet(voteCount, label) ELSE Frac(0, 1),
                            Frac(1, 1))
             more == ~FracLeq(sum, maxVotes)
         IN  VoteLoopUnweighted(Tail(matches), MapSet(voteCount, label, sum),
                                IF more THEN sum ELSE maxVotes,
                                IF more THEN Str(label) ELSE winner)

\* the loop of majorityVote: the running sums per label, the largest sum so
\* far and the label that reached it
RECURSIVE VoteLoop(_, _, _, _)
VoteLoop(matches, voteCount, maxVotes, winner) ==
    IF matches = <<>> THEN winner
    ELSE LET label == Head(matches).label
             sum == FracAdd(IF MapHas(voteCount, label)
                            THEN MapGet(voteCount, label) ELSE Frac(0, 1),
                            Head(matches).similarity)
             more == ~FracLeq(sum, maxVotes)
         IN  VoteLoop(Tail(matches), MapSet(voteCount, label, sum),
                      IF more THEN sum ELSE maxVotes,
                      IF more THEN Str(label) ELSE winner)

\* majorityVote(matches)
majorityVote(matches) ==
    IF matches = <<>> THEN JsNull
    ELSE VoteLoop(matches, <<>>, Frac(0, 1), JsNull)

\* label.split(/\s+/): the pieces between runs of whitespace, an empty
\* piece before leading and after trailing whitespace
RECURSIVE SplitWhitespace(_, _, _)
SplitWhitespace(s, parts, inSpace) ==
    IF s = <<>> THEN parts
    ELSE IF IsSpace(Head(s))
    THEN SplitWhitespace(Tail(s),
                         IF inSpace THEN parts ELSE Append(parts, <<>>), TRUE)
    ELSE SplitWhitespace(Tail(s),
                         [parts EXCEPT ![Len(parts)] = Append(@, Head(s))],
                         FALSE)

Words(s) == SplitWhitespace(s, <<<<>>>>, FALSE)

\* transitions[current][next] = (transitions[current][next] || 0) + 1 for
\* the consecutive words of one label
RECURSIVE CountTransitions(_, _)
CountTransitions(transitions, parts) ==
    IF Len(parts) < 2 THEN transitions
    ELSE LET row == IF MapHas(transitions, parts[1])
                    THEN MapGet(transitions, parts[1]) ELSE <<>>
         IN  CountTransitions(
                 MapSet(transitions, parts[1], Increment(row, parts[2])),
                 Tail(parts))

\* buildMarkovChain(labels): the transitions and starters tables
RECURSIVE buildMarkovChain(_, _)
buildMarkovChain(chain, labels) ==
    IF labels = <<>> THEN chain
    ELSE LET parts == Words(Head(labels))
         IN  buildMarkovChain(
                 [transitions |-> CountTransitions(chain.transitions, parts),
                  starters |-> Increment(chain.starters, parts[1])],
                 Tail(labels))

\* predictWithMarkovChain that returns the successor seen first
predictWithMarkovChainFirst(partialInput, transitions) ==
    LET words == Words(partialInput)
        lastWord == words[Len(words)]
    IN  IF MapHas(transitions, lastWord)
        THEN ObjectEntries(MapGet(transitions, lastWord))[1].key
        ELSE <<>>

\* predictWithMarkovChain(partialInput, transitions, starters) for a
\* non-empty partialInput
predictWithMarkovChain(partialInput, transitions) ==
    LET words == Words(partialInput)
        lastWord == words[Len(words)]
    IN  IF MapHas(transitions, lastWord)
        THEN MostFrequentKey(ObjectEntries(MapGet(transitions, lastWord)), <<>>)
        ELSE <<>>

\* the starter words predictWithMarkovChain picks from at random when
\* partialInput is empty
StarterWords(starters) == ObjectKeyOrder(MapKeys(starters))

\* new FieldPredictionModel(fieldType): this.model = null
UntrainedModel == [type |-> "none"]

-----------------------------------------------------------------------------
(* FieldValidator                                                          *)

\* a validator argument: a function (named by `id`) or something else
Validator(callable, id) == [callable |-> callable, id |-> id]

R_custom == <<"c","u","s","t","o","m">>
R_zip == <<"z","i","p">>

\* this.rules of a new FieldValidator
PredefinedRules ==
    <<[key |-> N_email, val |-> Validator(TRUE, "_validateEmail")],
      [key |-> N_phone, val |-> Validator(TRUE, "_validatePhone")],
      [key |-> <<"u","r","l">>, val |-> Validator(TRUE, "_validateUrl")],
      [key |-> <<"n","u","m","b","e","r">>,
       val |-> Validator(TRUE, "_validateNumber")],
      [key |-> N_date, val |-> Validator(TRUE, "_validateDate")],
      [key |-> <<"r","e","q","u","i","r","e","d">>,
       val |-> Validator(TRUE, "_validateRequired")]>>

\* addRule without the typeof check
addRuleUnchecked(rs, ruleName, validator) ==
    [threw |-> FALSE, rules |-> MapSet(rs, ruleName, validator)]

\* addRule(ruleName, validator): the rule table afterwards and whether the
\* call threw
addRule(rs, ruleName, validator) ==
    IF validator.callable
    THEN [threw |-> FALSE, rules |-> MapSet(rs, ruleName, validator)]
    ELSE [threw |-> TRUE, rules |-> rs]

-----------------------------------------------------------------------------
(* Operations                                                              *)

\* no second instance has been constructed
NoPeer == [live |-> FALSE]

\* the default configuration of the constructor, as far as the operations
\* read it
DefaultOptions ==
    <<[key |-> "learning", val |-> Bool(TRUE)],
      [key |-> "privacy",
       val |-> Obj(<<[key |-> "localOnly", val |-> Bool(TRUE)],
                     [key |-> "autoForget", val |-> Bool(TRUE)],
                     [key |-> "anonymize", val |-> Bool(TRUE)]>>)],
      [key |-> "prediction",
       val |-> Obj(<<[key |-> "confidenceThreshold", val |-> Frac(7, 10)],
                     [key |-> "maxSuggestions", val |-> Num(maxSuggestions)],
                     [key |-> "autoComplete", val |-> Str(<<"s","m","a","r","t">>)]>>)]>>

\* new SmartFormPredictor(options): this.config = { ...defaults, ...options }
\* and what the operations read from it: config.learning,
\* config.privacy.anonymize, config.prediction.maxSuggestions; `storage`
\* tells whether the environment has a usable localStorage, `options` is
\* the argument itself.
constructorConfig(options, storage) ==
    LET merged == Spread(DefaultOptions, options)
    IN  [learning |-> Truthy(MapGet(merged, "learning")),
         anonymize |-> Truthy(Prop(MapGet(merged, "privacy"), "anonymize")),
         maxSuggestions |-> Prop(MapGet(merged, "prediction"), "maxSuggestions"),
         storage |-> storage,
         options |-> options]

\* new SmartFormPredictor() with no options, in a browser whose storage
\* is empty
DefaultConfig == constructorConfig(<<>>, TRUE)

Init ==
    /\ config = DefaultConfig
    /\ fieldModel = UntrainedModel
    /\ rules = PredefinedRules
    /\ pending = <<>>
    /\ started = <<>>
    /\ peer = NoPeer
    /\ usedBudget = 0
    /\ trainingData = <<>>
    /\ predictionCache = <<>>
    /\ patterns = <<>>
    /\ models = <<>>
    /\ userProfile = <<>>
    /\ nodes = <<>>
    /\ edges = <<>>
    /\ lsTraining = <<>>
    /\ lsPatterns = <<>>
    /\ clock = 0
    /\ last = [op |-> "init"]

\* _loadTrainingData(): the entries of the saved object, in the order of
\* Object.keys, when localStorage can be read; nothing otherwise
loadTrainingData(stored, storage) ==
    IF storage
    THEN [i \in 1..Len(stored) |->
            [key |-> ObjectKeyOrder(MapKeys(stored))[i],
             val |-> MapGet(stored, ObjectKeyOrder(MapKeys(stored))[i])]]
    ELSE <<>>

\* getItem without the isEnabled test
getItemUnchecked(stored, storage) == stored

\* LocalStorage.getItem(key): null when the storage test of the constructor
\* failed or nothing is stored (here: the empty object)
getItem(stored, storage) == IF storage THEN stored ELSE <<>>

\* the forEach of _loadStoredData: patterns.set(fieldName, new Set(...))
\* for every field name of the stored object
RECURSIVE restorePatterns(_, _, _)
restorePatterns(pats, stored, keys) ==
    IF keys = <<>> THEN pats
    ELSE restorePatterns(MapSet(pats, Head(keys), MapGet(stored, Head(keys))),
                         stored, Tail(keys))

\* the test of learnFromSubmission that never returns early
LearningOffIgnored == FALSE

\* if (!this.config.learning) return;
LearningOff == ~config.learning

\* learnFromSubmission that hands the submitted record on after the privacy
\* step has run
privateDataRaw(rec, used, draw) ==
    IF config.anonymize
    THEN [learnWithPrivacy(rec, used, LearnEpsilon, draw) EXCEPT !.data = rec]
    ELSE [data |-> rec, used |-> used, epsilon |-> 0, passThrough |-> TRUE]

\* privateData of learnFromSubmission: the output of learnWithPrivacy when
\* config.privacy.anonymize is truthy, the record itself otherwise
privateData(rec, used, draw) ==
    IF config.anonymize
    THEN learnWithPrivacy(rec, used, LearnEpsilon, draw)
    ELSE [data |-> rec, used |-> used, epsilon |-> 0, passThrough |-> TRUE]

\* learnFromSubmission(rec); draw are the noise draws and hour the hour of
\* the day at which it runs.
Learn(rec, draw, hour) ==
    IF LearningOff
    THEN /\ last' = [op |-> "learn", record |-> rec, skipped |-> TRUE]
         /\ UNCHANGED <<pending, started, peer, fieldModel, rules, config, usedBudget, trainingData, predictionCache,
                        patterns, models, userProfile, nodes, edges,
                        lsTraining, lsPatterns, clock>>
    ELSE LET priv == privateData(rec, usedBudget, draw)
             eff == LearnEffects(priv.data, hour, clock + 1)
         IN  /\ usedBudget' = priv.used
             /\ patterns' = eff.patterns
             /\ models' = eff.models
             /\ userProfile' = eff.userProfile
             /\ trainingData' = eff.trainingData
             /\ lsTraining' = eff.lsTraining
             /\ lsPatterns' = eff.lsPatterns
             /\ clock' = clock + 1
             /\ last' = [op |-> "learn", record |-> rec, skipped |-> FALSE,
                         draw |-> draw, usedBefore |-> usedBudget,
                         requested |-> LearnEpsilon,
                         epsilon |-> priv.epsilon,
                         passThrough |-> priv.passThrough,
                         data |-> priv.data, threw |-> eff.threw]
             /\ UNCHANGED <<pending, started, peer, fieldModel, rules, config, predictionCache, nodes, edges>>

\* the continuation that runs next if the newest one were taken
NextContinuationNewest(queue) == Len(queue)

\* The continuation that runs next: the awaited promises are already
\* settled, so the continuations run in the order they were queued.
NextContinuation(queue) == 1

\* learnFromSubmission(rec) called without waiting for its promise: the
\* call runs up to `await this._updateModels(...)`: the learning test, the
\* privacy step and all of _updateModels (which has no await of its own).
\* When _updateModels raises the promise is rejected and the call is over.
StartLearn(rec, draw, hour) ==
    IF LearningOff
    THEN /\ last' = [op |-> "start", record |-> rec, skipped |-> TRUE]
         /\ UNCHANGED <<pending, started, peer, fieldModel, rules, config,
                        usedBudget, trainingData, predictionCache, patterns,
                        models, userProfile, nodes, edges, lsTraining,
                        lsPatterns, clock>>
    ELSE LET priv == privateData(rec, usedBudget, draw)
             threw == ValueDependenciesThrows(priv.data)
                      \/ PersonalInfoThrows(priv.data)
         IN  /\ usedBudget' = priv.used
             /\ patterns' = IF threw THEN patterns
                             ELSE updatePatterns(patterns, priv.data)
             /\ models' = IF threw THEN models
                           ELSE updateModelTable(models, priv.data)
             /\ userProfile' = IF threw THEN userProfile
                                ELSE sessionProfile(priv.data, hour)
             /\ pending' = IF threw THEN pending
                            ELSE Append(pending,
                                        [stage |-> "store", data |-> priv.data])
             /\ started' = IF threw THEN started ELSE Append(started, priv.data)
             /\ clock' = clock + 1
             /\ last' = [op |-> "start", record |-> rec, skipped |-> FALSE,
                         data |-> priv.data, threw |-> threw]
             /\ UNCHANGED <<peer, fieldModel, rules, config, trainingData,
                            predictionCache, nodes, edges, lsTraining,
                            lsPatterns>>

\* A suspended learnFromSubmission call goes on.  After the first await it
\* runs addTrainingData (with its save) and _savePatterns up to the second
\* await; after the second it returns.
ResumeLearn ==
    /\ pending # <<>>
    /\ LET i == NextContinuation(pending)
           call == pending[i]
           rest == SubSeq(pending, 1, i - 1) \o SubSeq(pending, i + 1, Len(pending))
       IN  /\ IF call.stage = "store"
              THEN /\ trainingData' = addTrainingData(trainingData, call.data, clock)
                   /\ lsTraining' = IF config.storage THEN trainingData'
                                     ELSE lsTraining
                   /\ lsPatterns' = IF config.storage THEN patterns
                                     ELSE lsPatterns
                   /\ pending' = Append(rest, [stage |-> "done", data |-> call.data])
              ELSE /\ pending' = rest
                   /\ UNCHANGED <<trainingData, lsTraining, lsPatterns>>
           /\ last' = [op |-> "resume", stage |-> call.stage, data |-> call.data]
    /\ UNCHANGED <<started, peer, fieldModel, rules, config, usedBudget,
                   predictionCache, patterns, models, userProfile, nodes,
                   edges, clock>>

\* new SmartFormPredictor() a second time, in the same page: its engine
\* loads the training data that is saved at that moment
ConstructPeer ==
    /\ ~peer.live
    /\ peer' = [live |-> TRUE, usedBudget |-> 0,
                trainingData |-> loadTrainingData(lsTraining, config.storage),
                patterns |-> <<>>, models |-> <<>>, userProfile |-> <<>>]
    /\ last' = [op |-> "construct"]
    /\ UNCHANGED <<pending, started, fieldModel, rules, config, usedBudget,
                   trainingData, predictionCache, patterns, models,
                   userProfile, nodes, edges, lsTraining, lsPatterns, clock>>

\* learnFromSubmission(rec) on the second predictor: its own budget and
\* collections, the same storage keys
PeerLearn(rec, draw, hour) ==
    /\ peer.live
    /\ LET priv == privateData(rec, peer.usedBudget, draw)
           eff == LearnEffectsOn(peer, priv.data, hour, clock + 1)
       IN  /\ peer' = [live |-> TRUE, usedBudget |-> priv.used,
                       trainingData |-> eff.trainingData,
                       patterns |-> eff.patterns, models |-> eff.models,
                       userProfile |-> eff.userProfile]
           /\ lsTraining' = eff.lsTraining
           /\ lsPatterns' = eff.lsPatterns
           /\ clock' = clock + 1
           /\ last' = [op |-> "peerLearn", record |-> rec, data |-> priv.data,
                       threw |-> eff.threw]
    /\ UNCHANGED <<pending, started, fieldModel, rules, config, usedBudget,
                   trainingData, predictionCache, patterns, models,
                   userProfile, nodes, edges>>

\* privacyLearner.learnWithPrivacy([rec], requested), called on its own
LearnWithPrivacyCall(rec, requested, draw) ==
    LET priv == learnWithPrivacy(rec, usedBudget, requested, draw)
    IN  /\ usedBudget' = priv.used
        /\ last' = [op |-> "privacy", record |-> rec, draw |-> draw,
                    usedBefore |-> usedBudget, requested |-> requested,
                    epsilon |-> priv.epsilon,
                    passThrough |-> priv.passThrough, data |-> priv.data]
        /\ UNCHANGED <<pending, started, peer, fieldModel, rules, config, trainingData, predictionCache, patterns, models,
                       userProfile, nodes, edges, lsTraining, lsPatterns,
                       clock>>

\* privacyLearner.resetPrivacyBudget()
ResetPrivacyBudget ==
    /\ usedBudget' = 0
    /\ last' = [op |-> "reset"]
    /\ UNCHANGED <<pending, started, peer, fieldModel, rules, config, trainingData, predictionCache, patterns, models,
                   userProfile, nodes, edges, lsTraining, lsPatterns, clock>>

\* the keys of `before` that are no longer keys of `after`
RemovedKeys(before, after) ==
    SelectSeq(MapKeys(before), LAMBDA k : ~MapHas(after, k))

\* predict(field, context) -> predictFieldValue(field, features)
Predict(field, context) ==
    LET r == predictFieldValue(trainingData, predictionCache, field, context)
    IN  /\ predictionCache' = r.cache
        /\ last' = [op |-> "predict", field |-> field, context |-> context,
                    key |-> generateCacheKey(field, context),
                    ret |-> r.ret, hit |-> r.hit, computed |-> r.computed,
                    evicted |-> RemovedKeys(predictionCache, r.cache),
                    afterHitOn |-> IF last.op = "predict" /\ last.hit
                                   THEN <<last.key>> ELSE <<>>,
                    learned |-> clock]
        /\ UNCHANGED <<pending, started, peer, fieldModel, rules, config, usedBudget, trainingData, patterns, models,
                       userProfile, nodes, edges, lsTraining, lsPatterns,
                       clock>>

\* _loadStoredData(), the storage part of init(formSelector): nothing is
\* ever saved under 'smart-form-models', the saved patterns are restored
LoadStoredData ==
    LET storedPatterns == getItem(lsPatterns, config.storage)
    IN  /\ patterns' = restorePatterns(patterns, storedPatterns,
                                       ObjectKeyOrder(MapKeys(storedPatterns)))
        /\ last' = [op |-> "load", storedPatterns |-> storedPatterns]
        /\ UNCHANGED <<pending, started, peer, fieldModel, rules, config,
                       usedBudget, trainingData, predictionCache, models,
                       userProfile, nodes, edges, lsTraining, lsPatterns,
                       clock>>

\* getSuggestions(fieldName, partialValue)
GetSuggestions(fieldName, partialValue) ==
    /\ last' = [op |-> "getSuggestions", field |-> fieldName,
                partialValue |-> partialValue,
                threw |-> SuggestionsThrow(patterns, fieldName),
                ret |-> IF SuggestionsThrow(patterns, fieldName) THEN <<>>
                        ELSE getSuggestions(patterns, fieldName, partialValue)]
    /\ UNCHANGED <<pending, started, peer, fieldModel, rules, config, usedBudget, trainingData, predictionCache, patterns,
                   models, userProfile, nodes, edges, lsTraining, lsPatterns,
                   clock>>

\* crossSessionLearner.learnCrossSessionPatterns(sessions), called on its own
LearnCrossSessionPatterns(sessions) ==
    LET threw == \E i \in 1..Len(sessions) : PersonalInfoThrows(sessions[i].fields)
        built == buildUserProfile(crossSessionPatterns(sessions))
    IN  /\ userProfile' = IF threw THEN userProfile ELSE built
        /\ last' = [op |-> "crossLearn", sessions |-> sessions, threw |-> threw,
                    ret |-> IF threw THEN <<>> ELSE built]
        /\ UNCHANGED <<pending, started, peer, fieldModel, rules, config, usedBudget, trainingData, predictionCache,
                       patterns, models, nodes, edges, lsTraining, lsPatterns,
                       clock>>

\* crossSessionLearner.updateUserProfile(newPatterns); `target` is the
\* object Object.assign wrote to, the profile object of before the call
UpdateUserProfile(newPatterns) ==
    /\ userProfile' = updateUserProfile(userProfile, newPatterns)
    /\ last' = [op |-> "updateProfile", before |-> userProfile,
                built |-> buildUserProfile(newPatterns),
                target |-> ObjectAssign(userProfile,
                                        buildUserProfile(newPatterns))]
    /\ UNCHANGED <<pending, started, peer, fieldModel, rules, config, usedBudget, trainingData, predictionCache,
                   patterns, models, nodes, edges, lsTraining, lsPatterns,
                   clock>>

\* relationshipGraph.discoverRelationships(sessions), called on its own
DiscoverRelationships(sessions) ==
    /\ last' = IF HistoryThrows(sessions)
               THEN [op |-> "discover", history |-> sessions, threw |-> TRUE]
               ELSE [op |-> "discover", history |-> sessions, threw |-> FALSE,
                     cooccurrence |-> calculateCooccurrence(<<>>, sessions),
                     temporalRelations |-> analyzeTemporalPatterns(<<>>, sessions),
                     valueDependencies |-> findValueDependencies(<<>>, sessions)]
    /\ UNCHANGED <<pending, started, peer, fieldModel, rules, config, usedBudget, trainingData, predictionCache, patterns,
                   models, userProfile, nodes, edges, lsTraining, lsPatterns,
                   clock>>

-----------------------------------------------------------------------------
(* FieldRelationshipGraph: nodes and edges                                 *)

\* typePatterns of _inferFieldType, in the order of the object literal
typePatterns ==
    << [type |-> "email",   patterns |-> <<N_email, <<"m","a","i","l">>>>],
       [type |-> "phone",   patterns |-> <<N_phone, <<"t","e","l">>,
                                           <<"m","o","b","i","l","e">>>>],
       [type |-> "date",    patterns |-> <<N_date,
                                           <<"b","i","r","t","h","d","a","y">>,
                                           <<"d","o","b">>>>],
       [type |-> "name",    patterns |-> <<<<"n","a","m","e">>,
                                           <<"f","i","r","s","t">>,
                                           <<"l","a","s","t">>>>],
       [type |-> "address", patterns |-> <<N_address,
                                           <<"s","t","r","e","e","t">>,
                                           <<"a","d","d","r">>>>],
       [type |-> "city",    patterns |-> <<N_city>>],
       [type |-> "zip",     patterns |-> <<<<"z","i","p">>,
                                           <<"p","o","s","t","a","l">>>>],
       [type |-> "country", patterns |-> <<<<"c","o","u","n","t","r","y">>>>],
       [type |-> "number",  patterns |-> <<<<"n","u","m","b","e","r">>,
                                           <<"c","o","u","n","t">>,
                                           <<"q","t","y">>>>] >>

TypeMatches(i, fieldName) ==
    \E j \in 1..Len(typePatterns[i].patterns) :
        Includes(ToLowerCase(fieldName), typePatterns[i].patterns[j])

\* _inferFieldType(fieldName): the first type one of whose patterns the
\* lower-cased name includes, else 'text'
inferFieldType(fieldName) ==
    IF \E i \in 1..Len(typePatterns) : TypeMatches(i, fieldName)
    THEN typePatterns[CHOOSE i \in 1..Len(typePatterns) :
                          /\ TypeMatches(i, fieldName)
                          /\ \A k \in 1..(i - 1) : ~TypeMatches(k, fieldName)].type
    ELSE "text"

\* addNode(fieldName) on the node table `ns`
addNode(ns, fieldName) ==
    IF MapHas(ns, fieldName) THEN ns
    ELSE MapSet(ns, fieldName,
                [name |-> fieldName, type |-> inferFieldType(fieldName),
                 connections |-> <<>>])

\* nodes.get(a).connections.add(b)
Connect(ns, a, b) ==
    MapSet(ns, a, [MapGet(ns, a) EXCEPT !.connections = SetAdd(@, b)])

\* edgeKey = `${fromField}-${toField}`
edgeKey(fromField, toField) == fromField \o <<"-">> \o toField

EdgeObject(fromField, toField, relationData) ==
    Spread(<<[key |-> "from", val |-> Str(fromField)],
             [key |-> "to", val |-> Str(toField)]>>, relationData)

\* what addEdge does to the edge table `es`
addEdgeEdges(es, fromField, toField, relationData) ==
    IF MapHas(es, edgeKey(fromField, toField)) THEN es
    ELSE MapSet(es, edgeKey(fromField, toField),
                EdgeObject(fromField, toField, relationData))

\* what addEdge does to the node table `ns`, given the edge table `es`
addEdgeNodes(ns, es, fromField, toField) ==
    LET both == addNode(addNode(ns, fromField), toField)
    IN  IF MapHas(es, edgeKey(fromField, toField)) THEN both
        ELSE Connect(Connect(both, fromField, toField), toField, fromField)

\* relationshipGraph.addNode(fieldName)
AddNode(fieldName) ==
    /\ nodes' = addNode(nodes, fieldName)
    /\ last' = [op |-> "addNode", field |-> fieldName]
    /\ UNCHANGED <<pending, started, peer, fieldModel, rules, config, usedBudget, trainingData, predictionCache, patterns,
                   models, userProfile, edges, lsTraining, lsPatterns, clock>>

\* relationshipGraph.addEdge(fromField, toField, relationData)
AddEdge(fromField, toField, relationData) ==
    /\ nodes' = addEdgeNodes(nodes, edges, fromField, toField)
    /\ edges' = addEdgeEdges(edges, fromField, toField, relationData)
    /\ last' = [op |-> "addEdge", from |-> fromField, to |-> toField,
                relationData |-> relationData,
                repeated |-> last.op = "addEdge" /\ last.from = fromField
                             /\ last.to = toField]
    /\ UNCHANGED <<pending, started, peer, fieldModel, rules, config, usedBudget, trainingData, predictionCache, patterns,
                   models, userProfile, lsTraining, lsPatterns, clock>>

\* model.train(features, labels) of a 'categorical' model: trainDecisionTree
TrainDecisionTree(features, labels) ==
    /\ fieldModel' = [type |-> "decisionTree", features |-> features,
                      labels |-> labels]
    /\ last' = [op |-> "train", type |-> "decisionTree"]
    /\ UNCHANGED <<pending, started, peer, rules, config, usedBudget, trainingData, predictionCache,
                   patterns, models, userProfile, nodes, edges, lsTraining,
                   lsPatterns, clock>>

\* model.train(features, labels) of a 'text' model: trainTextPrediction;
\* `labels` is kept next to the tables built from it
TrainTextPrediction(labels) ==
    /\ fieldModel' = [type |-> "markovChain", labels |-> labels,
                      chain |-> buildMarkovChain(
                                    [transitions |-> <<>>, starters |-> <<>>],
                                    labels)]
    /\ last' = [op |-> "train", type |-> "markovChain"]
    /\ UNCHANGED <<pending, started, peer, rules, config, usedBudget, trainingData, predictionCache,
                   patterns, models, userProfile, nodes, edges, lsTraining,
                   lsPatterns, clock>>

\* model.predict(context) of a trained decision tree model
ModelPredict(context) ==
    /\ fieldModel.type = "decisionTree"
    /\ last' = [op |-> "modelPredict", context |-> context,
                ret |-> majorityVote(findSimilarContexts(
                            context, fieldModel.features, fieldModel.labels))]
    /\ UNCHANGED <<pending, started, peer, fieldModel, rules, config, usedBudget, trainingData,
                   predictionCache, patterns, models, userProfile, nodes,
                   edges, lsTraining, lsPatterns, clock>>

\* model.predict(partialInput) of a trained Markov chain model; without
\* input the starter word is picked by Math.random
TextPredict(partialInput) ==
    /\ fieldModel.type = "markovChain"
    /\ \E r \in (IF partialInput # <<>>
                 THEN {predictWithMarkovChain(partialInput,
                                              fieldModel.chain.transitions)}
                 ELSE IF fieldModel.chain.starters = <<>> THEN {<<>>}
                 ELSE SeqToSet(StarterWords(fieldModel.chain.starters))) :
          last' = [op |-> "textPredict", partialInput |-> partialInput,
                   ret |-> r]
    /\ UNCHANGED <<pending, started, peer, fieldModel, rules, config, usedBudget, trainingData,
                   predictionCache, patterns, models, userProfile, nodes,
                   edges, lsTraining, lsPatterns, clock>>

\* validator.addRule(ruleName, validator)
AddRule(ruleName, validator) ==
    LET r == addRule(rules, ruleName, validator)
    IN  /\ rules' = r.rules
        /\ last' = [op |-> "addRule", ruleName |-> ruleName,
                    validator |-> validator, threw |-> r.threw]
        /\ UNCHANGED <<pending, started, peer, fieldModel, config, usedBudget, trainingData,
                       predictionCache, patterns, models, userProfile, nodes,
                       edges, lsTraining, lsPatterns, clock>>

-----------------------------------------------------------------------------
(* Bounds and input sets                                                   *)

\* learn calls per behaviour of Spec
MaxLearns == 2
\* learn calls per behaviour of SpecPrivacy
MaxPrivacyLearns == 2
\* learn calls per behaviour of SpecSuggest
MaxSuggestLearns == 4
\* learn calls per behaviour of SpecCache
MaxCacheLearns == 1
\* learn calls per behaviour of SpecGeneric
MaxGenericLearns == 1
\* learn calls per behaviour of SpecLoaded
MaxLoadedLearns == 1
\* sessions per call of learnCrossSessionPatterns
MaxProfileSessions == 3
\* learn calls per behaviour of SpecContact
MaxContactLearns == 2
\* examples a decision tree model is trained on
MaxExamples == 3
\* labels a Markov chain model is trained on
MaxLabels == 3
\* learn calls where the order of the steps is observed
MaxOrderLearns == 3
\* learn calls that fill the model table
MaxModelLearns == 3
\* learn calls without a usable storage
MaxNoStorageLearns == 2
\* learn calls of a predictor constructed with options
MaxOptionLearns == 1
\* learn calls of numeric values without the privacy step
MaxPlainLearns == 3
\* learnFromSubmission calls started without waiting
MaxAsyncLearns == 3
\* learn calls of two predictors on one storage
MaxSharedLearns == 2
\* sessions per history handed to discoverRelationships
MaxSessions == 3

\* serialized feature bundles (JSON.stringify(context))
Ctx1 == <<"{", "1", "}">>
Ctx2 == <<"{", "2", "}">>

R_Boston == <<Field(N_city, Str(V_Boston))>>
R_Bogota == <<Field(N_city, Str(V_Bogota))>>
R_Bonn == <<Field(N_city, Str(V_Bonn))>>
R_Bologna == <<Field(N_city, Str(V_Bologna))>>
R_Denver == <<Field(N_city, Str(V_Denver))>>
R_BostonAge == <<Field(N_city, Str(V_Boston)), Field(N_age, Num(45))>>
R_Age == <<Field(N_age, Num(45))>>
R_Phone == <<Field(N_email, Str(V_mail)), Field(N_phone, Str(S_phone1)),
             Field(N_age, Num(30))>>
R_Contact == <<Field(N_email, Str(V_mail)), Field(N_age, Num(70)),
               Field(N_location, Str(V_BostonMA))>>
N_qty == <<"q","t","y">>
R_Zero == <<Field(N_qty, Num(0))>>
R_Five == <<Field(N_qty, Num(5))>>
\* an age given as text
R_AgeText == <<Field(N_age, Str(<<"x">>))>>
\* a record on which _updateModels raises a TypeError: a numeric email next
\* to a username
R_BadEmail == <<Field(N_email, Num(7)), Field(N_username, Str(<<"x">>))>>

\* the noise draws for a record, one per numeric field
Draws(rec) == [{ i \in 1..Len(rec) : IsNum(rec[i].value) } -> NoiseDraws]

\* the hours of the day at which learn calls run
LearnHours == {9}

LearnRecords == {R_Boston, R_Bogota, R_BostonAge}
\* the partial inputs (field.value) of predict and getSuggestions calls
PartialInputs == {<<>>, <<"B", "o">>}

PredictFields == {FormField(N_city, <<>>), FormField(N_city, <<"B", "o">>),
                  FormField(N_age, <<>>), NoField}

\* the orchestrator: learn, predict, getSuggestions
Next ==
    \/ \E rec \in LearnRecords : \E draw \in Draws(rec) : \E h \in LearnHours :
           clock < MaxLearns /\ Learn(rec, draw, h)
    \/ \E f \in PredictFields : Predict(f, Ctx1)

Spec == Init /\ [][Next]_vars

-----------------------------------------------------------------------------
(* The privacy layer on its own and under learn                            *)

PrivacyRecords == {R_Age, R_Contact}
\* the epsilons of direct learnWithPrivacy calls: 0.3 and 0.4
DirectEpsilons == {3, 4}

NextPrivacy ==
    \/ \E rec \in PrivacyRecords : \E draw \in Draws(rec) : \E h \in LearnHours :
           clock < MaxPrivacyLearns /\ Learn(rec, draw, h)
    \/ \E rec \in PrivacyRecords : \E eps \in DirectEpsilons :
           \E draw \in Draws(rec) : LearnWithPrivacyCall(rec, eps, draw)
    \/ ResetPrivacyBudget

SpecPrivacy == Init /\ [][NextPrivacy]_vars

-----------------------------------------------------------------------------
(* The prediction cache                                                    *)

CacheRecords == {R_Boston}
CacheFields == {FormField(N_city, <<>>), FormField(N_city, <<"B", "o">>),
                FormField(N_email, <<>>)}
CacheContexts == {Ctx1, Ctx2}

NextCache ==
    \/ \E rec \in CacheRecords : \E draw \in Draws(rec) : \E h \in LearnHours :
           clock < MaxCacheLearns /\ Learn(rec, draw, h)
    \/ \E f \in CacheFields : \E c \in CacheContexts : Predict(f, c)

SpecCache == Init /\ [][NextCache]_vars

-----------------------------------------------------------------------------
(* The relationship graph: addNode and addEdge                             *)

G_ab == <<"a", "-", "b">>
G_c == <<"c">>
G_a == <<"a">>
G_bc == <<"b", "-", "c">>

GraphFrom == {G_ab, G_a}
GraphTo == {G_c, G_bc}
RelationData == {<<>>, <<[key |-> "weight", val |-> Num(1)]>>}

NextGraph ==
    \/ \E n \in GraphFrom \cup GraphTo : AddNode(n)
    \/ \E a \in GraphFrom : \E b \in GraphTo : \E d \in RelationData :
           AddEdge(a, b, d)

SpecGraph == Init /\ [][NextGraph]_vars

-----------------------------------------------------------------------------
(* discoverRelationships on bounded session histories                      *)

\* a session with the given field names, every value the same string
SessionOf(names) == [i \in 1..Len(names) |-> Field(names[i], Str(V_Boston))]

Sessions ==
    { SessionOf(<<N_city>>),
      SessionOf(<<N_city, N_age>>),
      SessionOf(<<N_age, N_city, N_email>>),
      SessionOf(<<G_ab, G_c>>),
      SessionOf(<<G_a, G_bc>>),
      <<Field(N_email, Str(V_mail)), Field(N_username, Str(<<"a">>))>> }

Histories ==
    UNION { [1..k -> Sessions] : k \in 0..MaxSessions }

NextDiscover ==
    \E h \in Histories : DiscoverRelationships(h)

SpecDiscover == Init /\ [][NextDiscover]_vars

-----------------------------------------------------------------------------
(* Suggestions from learned patterns                                       *)

SuggestRecords == {R_Boston, R_Bogota, R_Bonn, R_Bologna, R_Denver, R_Age}
SuggestFields == {N_city, N_age, N_email}

NextSuggest ==
    \/ \E rec \in SuggestRecords : \E draw \in Draws(rec) : \E h \in LearnHours :
           clock < MaxSuggestLearns /\ Learn(rec, draw, h)
    \/ \E n \in SuggestFields : \E p \in PartialInputs : GetSuggestions(n, p)

SpecSuggest == Init /\ [][NextSuggest]_vars

-----------------------------------------------------------------------------
(* Predictions for fields with and without training data                   *)

GenericRecords == {R_Boston, R_Contact}
GenericFields == {FormField(N_city, <<>>), FormField(N_email, <<>>),
                  FormField(N_phone, <<>>), FormField(N_fullName, <<>>),
                  FormField(N_age, <<>>)}

NextGeneric ==
    \/ \E rec \in GenericRecords : \E draw \in Draws(rec) : \E h \in LearnHours :
           clock < MaxGenericLearns /\ Learn(rec, draw, h)
    \/ \E f \in GenericFields : Predict(f, Ctx1)

SpecGeneric == Init /\ [][NextGeneric]_vars

-----------------------------------------------------------------------------
(* A predictor constructed over training data that an earlier instance     *)
(* saved: the engine's constructor loads it (_loadTrainingData)            *)

StoredCities == <<V_Boston, V_Bogota, V_Bonn, V_Bologna, V_Denver, V_Dallas>>

\* the saved training data after k single-field submissions of a city
StoredTraining(k) ==
    IF k = 0 THEN <<>>
    ELSE <<[key |-> N_city,
            val |-> [i \in 1..k |-> [value |-> Str(StoredCities[i]),
                                     timestamp |-> 0]]]>>

\* the patterns saved with them
StoredPatterns(k) ==
    IF k = 0 THEN <<>>
    ELSE <<[key |-> N_city, val |-> [i \in 1..k |-> Str(StoredCities[i])]]>>

InitLoaded ==
    \E k \in 0..Len(StoredCities) :
        /\ config = DefaultConfig
        /\ fieldModel = UntrainedModel
        /\ rules = PredefinedRules
        /\ pending = <<>>
        /\ started = <<>>
        /\ peer = NoPeer
        /\ usedBudget = 0
        /\ trainingData = StoredTraining(k)
        /\ predictionCache = <<>>
        /\ patterns = <<>>
        /\ models = <<>>
        /\ userProfile = <<>>
        /\ nodes = <<>>
        /\ edges = <<>>
        /\ lsTraining = StoredTraining(k)
        /\ lsPatterns = StoredPatterns(k)
        /\ clock = 0
        /\ last = [op |-> "init"]

LoadedRecords == {R_Boston, R_BostonAge}
LoadedFields == {FormField(N_city, <<>>), FormField(N_city, <<"B", "o">>),
                 FormField(N_age, <<>>), NoField}

NextLoaded ==
    \/ \E rec \in LoadedRecords : \E draw \in Draws(rec) : \E h \in LearnHours :
           clock < MaxLoadedLearns /\ Learn(rec, draw, h)
    \/ \E f \in LoadedFields : Predict(f, Ctx1)

SpecLoaded == InitLoaded /\ [][NextLoaded]_vars

-----------------------------------------------------------------------------
(* The cross-session learner on its own                                    *)

PS_Boston ==
    Session(<<Field(N_address, Str(<<"x">>)), Field(N_city, Str(V_Boston)),
              Field(N_company, Str(<<"A","c","m","e">>)),
              Field(N_title, Str(<<"D","e","v">>)),
              Field(N_deviceType, Str(<<"m","o","b","i","l","e">>))>>, 14)
PS_Denver ==
    Session(<<Field(N_address, Str(<<"x">>)), Field(N_city, Str(V_Denver)),
              Field(N_company, Str(<<"B","o","l","t">>)),
              Field(N_title, Str(<<"D","e","v">>)),
              Field(N_deviceType, Str(<<"d","e","s","k","t","o","p">>))>>, 9)
PS_Names ==
    Session(<<Field(N_firstName, Str(<<"A","n","n">>)),
              Field(N_lastName, Str(<<"L","e","e">>))>>, 9)

PS_City == Session(<<Field(N_city, Str(V_Boston))>>, 14)

ProfileSessions == {PS_Boston, PS_Denver, PS_Names, PS_City}

ProfileHistories ==
    UNION { [1..k -> ProfileSessions] : k \in 0..MaxProfileSessions }

\* the patterns handed to updateUserProfile: those of at most one session
NewPatterns ==
    { crossSessionPatterns(h) : h \in UNION { [1..k -> ProfileSessions] : k \in 0..1 } }

NextProfile ==
    \/ \E h \in ProfileHistories : LearnCrossSessionPatterns(h)
    \/ \E p \in NewPatterns : UpdateUserProfile(p)

SpecProfile == Init /\ [][NextProfile]_vars

-----------------------------------------------------------------------------
(* The privacy layer on records with contact fields                        *)

ContactRecords == {R_Phone, R_Contact}
\* the epsilon of direct learnWithPrivacy calls: 0.5
ContactEpsilons == {5}

NextContact ==
    \/ \E rec \in ContactRecords : \E draw \in Draws(rec) : \E h \in LearnHours :
           clock < MaxContactLearns /\ Learn(rec, draw, h)
    \/ \E rec \in ContactRecords : \E eps \in ContactEpsilons :
           \E draw \in Draws(rec) : LearnWithPrivacyCall(rec, eps, draw)
    \/ ResetPrivacyBudget

SpecContact == Init /\ [][NextContact]_vars

-----------------------------------------------------------------------------
(* A FieldPredictionModel on its own                                       *)

Ctx_Query == <<[key |-> "a", val |-> Num(1)], [key |-> "b", val |-> Num(1)],
               [key |-> "c", val |-> Num(1)], [key |-> "d", val |-> Num(1)]>>
Ctx_Near == <<[key |-> "a", val |-> Num(1)], [key |-> "b", val |-> Num(1)],
              [key |-> "c", val |-> Num(1)], [key |-> "d", val |-> Num(2)]>>
Ctx_Half == <<[key |-> "a", val |-> Num(1)], [key |-> "b", val |-> Num(1)],
              [key |-> "c", val |-> Num(2)], [key |-> "d", val |-> Num(2)]>>
Ctx_Other == <<[key |-> "e", val |-> Num(1)]>>

\* training examples: a context and its label
Examples ==
    [context : {Ctx_Query, Ctx_Near, Ctx_Half, Ctx_Other},
     label : {<<"X">>, <<"Y">>}]

ExampleLists == UNION { [1..k -> Examples] : k \in 0..MaxExamples }

QueryContexts == {Ctx_Query, Ctx_Other}

L_goNorth == <<"g","o"," ","n","o","r","t","h">>
L_goSouth == <<"g","o"," ","s","o","u","t","h">>
L_goSpace == <<"g","o"," ">>
L_northGo == <<"n","o","r","t","h"," "," ","g","o">>

TextLabels == {L_goNorth, L_goSouth, L_goSpace, L_northGo}

LabelLists == UNION { [1..k -> TextLabels] : k \in 0..MaxLabels }

TextInputs == {<<>>, <<"g","o">>, <<"g","o"," ">>, <<"w","e"," ","g","o">>,
               <<"n","o","r","t","h">>, <<"s","o","u","t","h">>}

\* Each model is trained once: train replaces this.model wholesale, so a
\* second call leads to no state that a first call does not lead to.
NextFieldModel ==
    \/ \E ex \in ExampleLists :
           /\ fieldModel = UntrainedModel
           /\ TrainDecisionTree([i \in 1..Len(ex) |-> ex[i].context],
                                [i \in 1..Len(ex) |-> ex[i].label])
    \/ \E labels \in LabelLists :
           fieldModel = UntrainedModel /\ TrainTextPrediction(labels)
    \/ \E c \in QueryContexts : ModelPredict(c)
    \/ \E p \in TextInputs : TextPredict(p)

SpecFieldModel == Init /\ [][NextFieldModel]_vars

-----------------------------------------------------------------------------
(* A FieldValidator's rule table                                           *)

RuleNames == {N_email, R_custom, R_zip}
Validators == {Validator(TRUE, "f"), Validator(TRUE, "g"),
               Validator(FALSE, "string"), Validator(FALSE, "undefined")}

NextValidator ==
    \E n \in RuleNames : \E v \in Validators : AddRule(n, v)

SpecValidator == Init /\ [][NextValidator]_vars

-----------------------------------------------------------------------------
(* The order of the steps of a learn call                                  *)

OrderRecords == {R_BostonAge, R_Contact, R_BadEmail}

NextOrder ==
    \E rec \in OrderRecords : \E draw \in Draws(rec) : \E h \in LearnHours :
        clock < MaxOrderLearns /\ Learn(rec, draw, h)

SpecOrder == Init /\ [][NextOrder]_vars

-----------------------------------------------------------------------------
(* The model table                                                         *)

ModelRecords == {R_Boston, R_BostonAge, R_AgeText, R_Phone, R_BadEmail}

NextModels ==
    \E rec \in ModelRecords : \E draw \in Draws(rec) : \E h \in LearnHours :
        clock < MaxModelLearns /\ Learn(rec, draw, h)

SpecModels == Init /\ [][NextModels]_vars

-----------------------------------------------------------------------------
(* An environment without usable storage                                   *)

\* new SmartFormPredictor() where localStorage is missing or every access
\* to it raises; what an earlier session saved (if anything) stays where it
\* is and cannot be read
InitNoStorage ==
    \E k \in 0..Len(StoredCities) :
        /\ config = constructorConfig(<<>>, FALSE)
        /\ fieldModel = UntrainedModel
        /\ rules = PredefinedRules
        /\ pending = <<>>
        /\ started = <<>>
        /\ peer = NoPeer
        /\ usedBudget = 0
        /\ trainingData = loadTrainingData(StoredTraining(k), FALSE)
        /\ predictionCache = <<>>
        /\ patterns = <<>>
        /\ models = <<>>
        /\ userProfile = <<>>
        /\ nodes = <<>>
        /\ edges = <<>>
        /\ lsTraining = StoredTraining(k)
        /\ lsPatterns = StoredPatterns(k)
        /\ clock = 0
        /\ last = [op |-> "init"]

NoStorageRecords == {R_Boston, R_BostonAge}
NoStorageFields == {FormField(N_city, <<>>), FormField(N_age, <<>>)}

NextNoStorage ==
    \/ \E rec \in NoStorageRecords : \E draw \in Draws(rec) : \E h \in LearnHours :
           clock < MaxNoStorageLearns /\ Learn(rec, draw, h)
    \/ LoadStoredData
    \/ \E f \in NoStorageFields : Predict(f, Ctx1)

SpecNoStorage == InitNoStorage /\ [][NextNoStorage]_vars

-----------------------------------------------------------------------------
(* Construction with options                                               *)

\* { prediction: { confidenceThreshold: 0.5 } }
O_threshold ==
    <<[key |-> "prediction",
       val |-> Obj(<<[key |-> "confidenceThreshold", val |-> Frac(1, 2)]>>)]>>
\* { privacy: { localOnly: true } }
O_localOnly ==
    <<[key |-> "privacy",
       val |-> Obj(<<[key |-> "localOnly", val |-> Bool(TRUE)]>>)]>>
\* { learning: false }
O_learningOff == <<[key |-> "learning", val |-> Bool(FALSE)]>>
\* { ui: { showConfidence: true } }
O_ui ==
    <<[key |-> "ui",
       val |-> Obj(<<[key |-> "showConfidence", val |-> Bool(TRUE)]>>)]>>

OptionSets == {<<>>, O_threshold, O_localOnly, O_learningOff, O_ui}

\* new SmartFormPredictor(options) in a browser whose storage holds what an
\* earlier session saved
InitOptions ==
    \E options \in OptionSets : \E k \in 0..Len(StoredCities) :
        /\ config = constructorConfig(options, TRUE)
        /\ fieldModel = UntrainedModel
        /\ rules = PredefinedRules
        /\ pending = <<>>
        /\ started = <<>>
        /\ peer = NoPeer
        /\ usedBudget = 0
        /\ trainingData = loadTrainingData(StoredTraining(k), TRUE)
        /\ predictionCache = <<>>
        /\ patterns = <<>>
        /\ models = <<>>
        /\ userProfile = <<>>
        /\ nodes = <<>>
        /\ edges = <<>>
        /\ lsTraining = StoredTraining(k)
        /\ lsPatterns = StoredPatterns(k)
        /\ clock = 0
        /\ last = [op |-> "init"]

OptionRecords == {R_Age, R_Boston}
OptionFields == {FormField(N_city, <<>>)}

NextOptions ==
    \/ \E rec \in OptionRecords : \E draw \in Draws(rec) : \E h \in LearnHours :
           clock < MaxOptionLearns /\ Learn(rec, draw, h)
    \/ LoadStoredData
    \/ \E partial \in PartialInputs : GetSuggestions(N_city, partial)
    \/ \E f \in OptionFields : Predict(f, Ctx1)

SpecOptions == InitOptions /\ [][NextOptions]_vars

-----------------------------------------------------------------------------
(* Numeric values learned as they are                                      *)

\* { privacy: { localOnly: true, autoForget: true, anonymize: false } }
O_plain ==
    <<[key |-> "privacy",
       val |-> Obj(<<[key |-> "localOnly", val |-> Bool(TRUE)],
                     [key |-> "autoForget", val |-> Bool(TRUE)],
                     [key |-> "anonymize", val |-> Bool(FALSE)]>>)]>>

InitPlain ==
    /\ config = constructorConfig(O_plain, TRUE)
    /\ fieldModel = UntrainedModel
    /\ rules = PredefinedRules
    /\ pending = <<>>
    /\ started = <<>>
    /\ peer = NoPeer
    /\ usedBudget = 0
    /\ trainingData = <<>>
    /\ predictionCache = <<>>
    /\ patterns = <<>>
    /\ models = <<>>
    /\ userProfile = <<>>
    /\ nodes = <<>>
    /\ edges = <<>>
    /\ lsTraining = <<>>
    /\ lsPatterns = <<>>
    /\ clock = 0
    /\ last = [op |-> "init"]

PlainRecords == {R_Zero, R_Five}
PlainFields == {FormField(N_qty, <<>>), FormField(N_qty, <<"0">>),
                FormField(N_qty, <<"5">>)}

NextPlain ==
    \/ \E rec \in PlainRecords : \E draw \in Draws(rec) : \E h \in LearnHours :
           clock < MaxPlainLearns /\ Learn(rec, draw, h)
    \/ \E f \in PlainFields : Predict(f, Ctx1)

SpecPlain == InitPlain /\ [][NextPlain]_vars

-----------------------------------------------------------------------------
(* learnFromSubmission calls in flight together                            *)

AsyncRecords == {R_Boston, R_Denver, R_BostonAge}

NextAsync ==
    \/ \E rec \in AsyncRecords : \E draw \in Draws(rec) : \E h \in LearnHours :
           clock < MaxAsyncLearns /\ StartLearn(rec, draw, h)
    \/ ResumeLearn

SpecAsync == Init /\ [][NextAsync]_vars

-----------------------------------------------------------------------------
(* Two predictors on one storage                                           *)

SharedRecords == {R_Boston, R_Denver, R_BostonAge}

NextShared ==
    \/ \E rec \in SharedRecords : \E draw \in Draws(rec) : \E h \in LearnHours :
           clock < MaxSharedLearns /\ Learn(rec, draw, h)
    \/ ConstructPeer
    \/ \E rec \in SharedRecords : \E draw \in Draws(rec) : \E h \in LearnHours :
           clock < MaxSharedLearns /\ PeerLearn(rec, draw, h)

SpecShared == Init /\ [][NextShared]_vars

-----------------------------------------------------------------------------
(* Claims                                                                  *)

\* the last operation ran the privacy step
PrivacyStepRan ==
    \/ last.op = "privacy"
    \/ last.op = "learn" /\ ~last.skipped /\ config.anonymize

\* C1: a predict issued after a learn call has completed returns a
\* prediction computed from the training data as it is then, the learned
\* record included (for the field's partial input or any other), also when
\* the same cache key was requested before that learn.
C1_PredictObservesLearn ==
    (last.op = "predict" /\ last.field # NoField /\ clock > 0)
        => \E v \in PartialInputs :
              last.ret = predictFromTrainingData(
                             trainingData, FormField(last.field.name, v))

\* C2: the remaining privacy budget is never negative, and no call other
\* than resetPrivacyBudget increases it.
C2_RemainingBudget ==
    [][ /\ getRemainingBudget' >= 0
        /\ (last'.op # "reset" => getRemainingBudget' <= getRemainingBudget)
      ]_vars

\* C2 witness: a call was clamped to the positive remainder and used up
\* the budget.
C2_Witness ==
    /\ PrivacyStepRan
    /\ last.usedBefore > 0
    /\ last.epsilon > 0
    /\ last.epsilon < last.requested
    /\ getRemainingBudget = 0

\* C3: the used budget never exceeds the total; a request that would
\* exceed it is granted exactly total - used, and the noise of the record
\* returned is the noise of that granted epsilon.
C3_ClampedGrant ==
    /\ usedBudget <= PrivacyBudgetTotal
    /\ (PrivacyStepRan /\ last.usedBefore + last.requested > PrivacyBudgetTotal)
        => /\ last.epsilon = PrivacyBudgetTotal - last.usedBefore
           /\ usedBudget = last.usedBefore + last.epsilon
           /\ (last.epsilon > 0 =>
                 \A i \in 1..Len(last.record) :
                    IsNum(last.record[i].value) =>
                       last.data[i].value =
                          Num(last.record[i].value.n + last.draw[i] *
                              LaplaceScale(PrivacyBudgetTotal - last.usedBefore)))

\* C3 witness: a clamped call with a non-zero noise draw on a numeric field
C3_Witness ==
    /\ PrivacyStepRan
    /\ last.usedBefore + last.requested > PrivacyBudgetTotal
    /\ last.epsilon > 0
    /\ \E i \in 1..Len(last.record) :
          IsNum(last.record[i].value) /\ last.draw[i] # 0

\* C4: with the budget exhausted a learn call is not aborted: the privacy
\* step hands back the record unchanged and leaves the used budget as it
\* was, and learn stores the raw values in patterns and training data.
C4_ExhaustedPassThrough ==
    (last.op = "learn" /\ ~last.skipped /\ config.anonymize
     /\ PrivacyBudgetTotal - last.usedBefore <= 0)
        => /\ ~last.threw
           /\ last.data = last.record
           /\ usedBudget = last.usedBefore
           /\ \A i \in 1..Len(last.record) :
                 LET f == last.record[i]
                 IN  /\ MapHas(patterns, f.name)
                     /\ SeqHas(MapGet(patterns, f.name), f.value)
                     /\ MapHas(trainingData, f.name)
                     /\ LET items == MapGet(trainingData, f.name)
                        IN  items[Len(items)].value = f.value

\* C4 witness: a learn of a record with a numeric field and a location,
\* run with nothing left of the budget
C4_Witness ==
    /\ last.op = "learn" /\ ~last.skipped
    /\ last.usedBefore = PrivacyBudgetTotal
    /\ last.record = R_Contact
    /\ MapHas(trainingData, N_age)

\* C5: the prediction cache never holds more than cacheSizeLimit entries,
\* and storing a new key while it is full evicts exactly one entry, the
\* earliest-inserted one, and puts the new key last.
C5_CacheBounded ==
    [][ /\ Len(predictionCache') <= cacheSizeLimit
        /\ (last'.op = "predict" /\ last'.computed
            /\ Len(predictionCache) = cacheSizeLimit)
            => /\ last'.evicted = <<predictionCache[1].key>>
               /\ MapKeys(predictionCache')
                     = Tail(MapKeys(predictionCache)) \o <<last'.key>>
      ]_vars

\* C5 witness: a predict stored a new key in a full cache
C5_Witness ==
    /\ last.op = "predict" /\ last.computed
    /\ Len(last.evicted) = 1
    /\ Len(predictionCache) = cacheSizeLimit

EdgesOfPair(es, a, b) ==
    { i \in 1..Len(es) :
        /\ MapGet(es[i].val, "from") = Str(a)
        /\ MapGet(es[i].val, "to") = Str(b) }

\* C7: after addEdge(a, b) the edge table has exactly one entry for the
\* ordered pair (a, b) and the node table has a and b; a second
\* addEdge(a, b) in a row does not change the edge table.
C7_AddEdgeIdempotent ==
    [][ last'.op = "addEdge"
        => /\ Cardinality(EdgesOfPair(edges', last'.from, last'.to)) = 1
           /\ MapHas(nodes', last'.from) /\ MapHas(nodes', last'.to)
           /\ (last'.repeated => edges' = edges)
      ]_vars

\* the sessions of a history that have both fields
SessionsWithBoth(sessions, a, b) ==
    { i \in 1..Len(sessions) : RecHas(sessions[i], a) /\ RecHas(sessions[i], b) }

\* the field names of a history
HistoryFields(sessions) ==
    UNION { SeqToSet(RecKeys(sessions[i])) : i \in 1..Len(sessions) }

\* C8: for every two distinct field names A and B of the history, the
\* counters "A-B" and "B-A" are equal: each is the number of sessions that
\* contain both.
C8_CooccurrenceSymmetric ==
    (last.op = "discover" /\ ~last.threw)
        => \A a \in HistoryFields(last.history) :
           \A b \in HistoryFields(last.history) \ {a} :
              /\ Counter(last.cooccurrence, PairKey(a, b))
                    = Counter(last.cooccurrence, PairKey(b, a))
              /\ Counter(last.cooccurrence, PairKey(a, b))
                    = Cardinality(SessionsWithBoth(last.history, a, b))

\* the distinct values learned for a field, in the order first learned
LearnedValues(fieldName) ==
    IF MapHas(trainingData, fieldName)
    THEN LET items == MapGet(trainingData, fieldName)
         IN  FirstOccurrences([i \in 1..Len(items) |-> items[i].value])
    ELSE <<>>

\* C9: getSuggestions returns the values stored for the field that start
\* with partialValue, in the order first learned, cut to maxSuggestions;
\* the empty list for a field never learned.
C9_Suggestions ==
    last.op = "getSuggestions"
        => /\ ~last.threw
           /\ last.ret = Take(SelectSeq(LearnedValues(last.field),
                                  LAMBDA v : StartsWith(JsToString(v),
                                                        last.partialValue)),
                              maxSuggestions)

\* the field of the last predict has no training examples
NoTrainingExamples ==
    /\ last.op = "predict" /\ last.field # NoField
    /\ (~MapHas(trainingData, last.field.name)
        \/ MapGet(trainingData, last.field.name) = <<>>)

\* C10 as claimed: for a field with no training examples predict returns a
\* generic prediction with a confidence between 0.2 and 0.3.
C10_GenericLowConfidence ==
    NoTrainingExamples
        => /\ last.ret.source = "generic"
           /\ FracLeq(Frac(2, 10), last.ret.confidence)
           /\ FracLeq(last.ret.confidence, Frac(3, 10))

\* C10 as amended: for a field with no training examples predict returns a
\* generic prediction whose confidence is fixed by the field name: 0.3 for
\* a name that contains "email" or "phone", 0.2 for one that contains
\* "fullName", and 0 with a null value and no alternatives for any other.
C10_GenericByName ==
    NoTrainingExamples
        => /\ last.ret.source = "generic"
           /\ LET n == last.field.name
                  c == last.ret.confidence
              IN  IF Includes(n, N_email) \/ Includes(n, N_phone)
                  THEN c = Frac(3, 10) /\ last.ret.value # JsNull
                  ELSE IF Includes(n, N_fullName)
                  THEN c = Frac(2, 10) /\ last.ret.value # JsNull
                  ELSE /\ c.num = 0
                       /\ last.ret.value = JsNull
                       /\ last.ret.alternatives = <<>>

\* C10 witness: a cache miss on a field without training examples, after
\* another field was learned
C10_Witness ==
    /\ NoTrainingExamples
    /\ last.computed
    /\ clock > 0
    /\ last.field.name = N_fullName


\* C11: every prediction that predict returns has a confidence within
\* [0, 1], at most 5 alternatives and a source that is "training-data",
\* "generic" or "unknown".
C11_PredictionShape ==
    last.op = "predict"
        => /\ FracLeq(Frac(0, 1), last.ret.confidence)
           /\ FracLeq(last.ret.confidence, Frac(1, 1))
           /\ last.ret.confidence.den > 0
           /\ Len(last.ret.alternatives) <= 5
           /\ last.ret.source \in {"training-data", "generic", "unknown"}

\* C11 witness: a prediction from a field with more than 5 distinct
\* learned values
C11_Witness ==
    /\ last.op = "predict" /\ last.field # NoField
    /\ Len(LearnedValues(last.field.name)) > 5
    /\ last.ret.source = "training-data"
    /\ Len(last.ret.alternatives) = 5


\* the field names of a record are connected in the graph: each is a node
\* and every two of them are joined by an edge
FieldsConnected(ns, es, rec) ==
    /\ \A i \in 1..Len(rec) : MapHas(ns, rec[i].name)
    /\ \A i \in 1..Len(rec) : \A j \in 1..Len(rec) :
          i < j => \/ EdgesOfPair(es, rec[i].name, rec[j].name) # {}
                   \/ EdgesOfPair(es, rec[j].name, rec[i].name) # {}

\* C12: after learnFromSubmission of a record with at least two fields the
\* relationship graph has nodes for those fields and edges between them, and
\* no operation removes a node or an edge.
C12_LearnCreatesEdges ==
    [][ /\ (last'.op = "learn" /\ ~last'.skipped /\ ~last'.threw
              /\ Len(last'.record) >= 2)
           => FieldsConnected(nodes', edges', last'.record)
        /\ \A k \in SeqToSet(MapKeys(nodes)) : MapHas(nodes', k)
        /\ \A k \in SeqToSet(MapKeys(edges)) : MapHas(edges', k)
      ]_vars


\* the training examples of a field, none for a field never learned
ExamplesOf(td, fieldName) ==
    IF MapHas(td, fieldName) THEN MapGet(td, fieldName) ELSE <<>>

\* C13: a completed learn call appends exactly one example per field of
\* its record to that field's list, and every step keeps each field's list
\* as a prefix of the new one: nothing is removed, replaced or reordered.
C13_AppendOnly ==
    [][ /\ \A k \in SeqToSet(MapKeys(trainingData)) :
              /\ MapHas(trainingData', k)
              /\ Len(MapGet(trainingData', k)) >= Len(MapGet(trainingData, k))
              /\ SubSeq(MapGet(trainingData', k), 1, Len(MapGet(trainingData, k)))
                    = MapGet(trainingData, k)
        /\ (last'.op = "learn" /\ ~last'.skipped /\ ~last'.threw)
              => /\ \A i \in 1..Len(last'.record) :
                      LET n == last'.record[i].name
                      IN  /\ Len(ExamplesOf(trainingData', n))
                                = Len(ExamplesOf(trainingData, n)) + 1
                          /\ ExamplesOf(trainingData', n)
                                [Len(ExamplesOf(trainingData', n))].value
                                = RecGet(last'.data, n)
                 /\ \A k \in SeqToSet(MapKeys(trainingData')) :
                      RecHas(last'.record, k)
                      \/ ExamplesOf(trainingData', k) = ExamplesOf(trainingData, k)
        /\ last'.op # "learn" => trainingData' = trainingData
      ]_vars

\* C13 witness: a second learn of a field that already has an example
C13_Witness ==
    /\ last.op = "learn" /\ ~last.skipped /\ ~last.threw
    /\ Len(last.record) = 2
    /\ Len(ExamplesOf(trainingData, N_city)) = 2
    /\ Len(ExamplesOf(trainingData, N_age)) = 1


\* C14: after updateUserProfile(newPatterns) the stored profile has the
\* properties of the newly built profile and still has every property of
\* the previous profile that the new one does not define.
C14_ShallowMerge ==
    last.op = "updateProfile"
        => /\ \A i \in 1..Len(last.built) :
                 /\ MapHas(userProfile, last.built[i].key)
                 /\ MapGet(userProfile, last.built[i].key) = last.built[i].val
           /\ \A i \in 1..Len(last.before) :
                 MapHas(last.built, last.before[i].key)
                 \/ /\ MapHas(userProfile, last.before[i].key)
                    /\ MapGet(userProfile, last.before[i].key) = last.before[i].val

\* the candidate seen first among those seen most often
FirstSeenWinner(cands) ==
    LET keys == FirstOccurrences(cands)
    IN  keys[MostFrequentIndex(keys, cands)]

\* the candidates of the sessions that satisfy `has`, in session order
Candidates(sessions, has(_), of(_)) ==
    LET sel == SelectSeq(sessions, has)
    IN  [i \in 1..Len(sel) |-> of(sel[i])]

\* C15: for each of preferredLocation, preferredWorkInfo, preferredHour and
\* preferredDevice the profile holds the candidate with the highest count,
\* and among several with the highest count the one seen first.
C15_FirstSeenWins ==
    (last.op = "crossLearn" /\ ~last.threw /\ last.sessions # <<>>)
        => LET locs == Candidates(last.sessions,
                           LAMBDA s : Truthy(RecProp(s.fields, N_address))
                                      /\ Truthy(RecProp(s.fields, N_city)),
                           LAMBDA s : LocationKey(s.fields))
               work == Candidates(last.sessions,
                           LAMBDA s : Truthy(RecProp(s.fields, N_company))
                                      /\ Truthy(RecProp(s.fields, N_title)),
                           LAMBDA s : CompanyTitleKey(s.fields))
               hours == Candidates(last.sessions, LAMBDA s : TRUE,
                                   LAMBDA s : s.hour)
               devs == Candidates(last.sessions, LAMBDA s : TRUE,
                                  LAMBDA s : DeviceOf(s.fields))
           IN  /\ locs # <<>> => MapGet(last.ret, P_preferredLocation)
                                    = Str(FirstSeenWinner(locs))
               /\ work # <<>> => MapGet(last.ret, P_preferredWorkInfo)
                                    = Str(FirstSeenWinner(work))
               /\ MapGet(last.ret, P_preferredHour) = Num(FirstSeenWinner(hours))
               /\ MapGet(last.ret, P_preferredDevice) = Str(FirstSeenWinner(devs))


\* C16: the generalization step of learnWithPrivacy replaces a numeric age
\* (as the noise step hands it over) by its bucket label.
C16_AgeGeneralized ==
    (PrivacyStepRan /\ ~last.passThrough)
        => \A i \in 1..Len(last.record) :
              (last.record[i].name = N_age /\ IsNum(last.record[i].value))
                  => last.data[i].value
                        = generalizeAge(
                              Num(last.record[i].value.n
                                  + last.draw[i] * LaplaceScale(last.epsilon)))


\* C17: whatever the budget, the privacy step returns the string email and
\* phone of a record as they went in, and a learn call stores these values.
C17_EmailPhonePreserved ==
    PrivacyStepRan
        => \A i \in 1..Len(last.record) :
              (last.record[i].name \in {N_email, N_phone}
               /\ IsStr(last.record[i].value))
                  => /\ last.data[i] = last.record[i]
                     /\ (last.op = "learn" /\ ~last.threw)
                           => LET n == last.record[i].name
                                  items == ExamplesOf(trainingData, n)
                              IN  /\ items # <<>>
                                  /\ items[Len(items)].value = last.record[i].value
                                  /\ MapHas(patterns, n)
                                  /\ SeqHas(MapGet(patterns, n), last.record[i].value)

\* C17 witness: with the budget used up, a learn call stores an email and a
\* phone after an earlier one went through the noise step
C17_Witness ==
    /\ last.op = "learn" /\ ~last.skipped /\ ~last.threw /\ last.passThrough
    /\ RecHas(last.record, N_email) /\ RecHas(last.record, N_phone)
    /\ Len(ExamplesOf(trainingData, N_phone)) = 2
    /\ ExamplesOf(trainingData, N_age)[1].value # RecGet(last.record, N_age)


\* similarity as the claim defines it: of the keys present in both
\* contexts, the fraction with equal values; 0 when no key is shared
SharedKeys(c1, c2) == SeqToSet(MapKeys(c1)) \cap SeqToSet(MapKeys(c2))

Similarity(c1, c2) ==
    IF SharedKeys(c1, c2) = {} THEN Frac(0, 1)
    ELSE Frac(Cardinality({ k \in SharedKeys(c1, c2) :
                              MapGet(c1, k) = MapGet(c2, k) }),
              Cardinality(SharedKeys(c1, c2)))

\* the sum of the similarities of the examples 1..n that are labelled
\* `label` and reach the threshold
RECURSIVE SimilaritySum(_, _, _)
SimilaritySum(context, label, n) ==
    IF n = 0 THEN Frac(0, 1)
    ELSE LET sim == Similarity(context, fieldModel.features[n])
             rest == SimilaritySum(context, label, n - 1)
         IN  IF fieldModel.labels[n] = label /\ FracLeq(Frac(7, 10), sim)
             THEN FracAdd(rest, sim) ELSE rest

\* the labels of the examples that reach the threshold
VotingLabels(context) ==
    { fieldModel.labels[i] : i \in { j \in 1..Len(fieldModel.features) :
          FracLeq(Frac(7, 10), Similarity(context, fieldModel.features[j])) } }

\* C18: predict of a FrequencyVote model returns null when no stored example
\* has similarity at least 0.7 to the query, and otherwise a label of such
\* an example whose similarity sum is the largest.
C18_FrequencyVote ==
    last.op = "modelPredict"
        => LET n == Len(fieldModel.features)
               voting == VotingLabels(last.context)
           IN  IF voting = {} THEN last.ret = JsNull
               ELSE /\ IsStr(last.ret)
                    /\ last.ret.s \in voting
                    /\ \A l \in voting :
                          FracLeq(SimilaritySum(last.context, l, n),
                                  SimilaritySum(last.context, last.ret.s, n))

\* C18 witness: the winner has the larger sum though another label has the
\* example with the higher similarity, and one example is under the
\* threshold
C18_Witness ==
    /\ last.op = "modelPredict" /\ last.context = Ctx_Query
    /\ Len(fieldModel.features) = 3
    /\ \E i \in 1..3 : fieldModel.features[i] = Ctx_Query
                       /\ Str(fieldModel.labels[i]) # last.ret
    /\ Cardinality(VotingLabels(last.context)) = 2

\* C18 witness for the example under the threshold: it does not vote
C18_WitnessBelow ==
    /\ last.op = "modelPredict" /\ last.context = Ctx_Query
    /\ fieldModel.features = <<Ctx_Half, Ctx_Near>>
    /\ fieldModel.labels = <<<<"X">>, <<"Y">>>>
    /\ last.ret = Str(<<"Y">>)

\* the number of times `next` follows `word` in the training labels
FollowCount(word, next) ==
    LET RECURSIVE InLabels(_)
        InLabels(n) ==
            IF n = 0 THEN 0
            ELSE LET parts == Words(fieldModel.labels[n])
                 IN  InLabels(n - 1)
                     + Cardinality({ i \in 1..(Len(parts) - 1) :
                                       parts[i] = word /\ parts[i + 1] = next })
    IN  InLabels(Len(fieldModel.labels))

\* the words that follow some word in the training labels
FollowingWords ==
    UNION { { Words(fieldModel.labels[n])[i] :
                i \in 2..Len(Words(fieldModel.labels[n])) } :
            n \in 1..Len(fieldModel.labels) }

C20_AddRule ==
    [][ last'.op = "addRule"
        => IF last'.validator.callable
           THEN /\ ~last'.threw
                /\ MapHas(rules', last'.ruleName)
                /\ MapGet(rules', last'.ruleName) = last'.validator
                /\ \A k \in (SeqToSet(MapKeys(rules)) \cup SeqToSet(MapKeys(rules')))
                             \ {last'.ruleName} :
                      /\ MapHas(rules, k) /\ MapHas(rules', k)
                      /\ MapGet(rules', k) = MapGet(rules, k)
           ELSE last'.threw /\ rules' = rules
      ]_vars

\* C20 witness: a call with a non-callable validator on a table that holds
\* a custom rule and a replaced predefined rule
C20_Witness ==
    /\ last.op = "addRule" /\ last.threw
    /\ MapHas(rules, R_custom)
    /\ MapGet(rules, N_email) = Validator(TRUE, "f")
    /\ last.ruleName = R_custom


\* C21: in a learn call the privacy step comes first (its budget is spent
\* also when the update that follows raises), the pattern and model update
\* next, then the training-data store and the two saves; every value the
\* call stores in patterns or training data is the value the privacy step
\* returned, for a numeric field with a positive epsilon the submitted
\* value plus that step's noise.
C21_LearnOrder ==
    [][ (last'.op = "learn" /\ ~last'.skipped)
        => /\ usedBudget' = usedBudget + last'.epsilon
           /\ \A i \in 1..Len(last'.record) :
                 (IsNum(last'.record[i].value) /\ last'.epsilon > 0)
                    => last'.data[i].value
                          = Num(last'.record[i].value.n
                                + last'.draw[i]
                                  * (PrivacyBudgetTotal \div last'.epsilon))
           /\ IF last'.threw
              THEN UNCHANGED <<patterns, models, trainingData, lsTraining,
                               lsPatterns>>
              ELSE /\ \A i \in 1..Len(last'.data) :
                        LET n == last'.data[i].name
                            ex == ExamplesOf(trainingData', n)
                        IN  /\ ex[Len(ex)].value = last'.data[i].value
                            /\ Len(ex) = Len(ExamplesOf(trainingData, n)) + 1
                            /\ SeqHas(MapGet(patterns', n), last'.data[i].value)
                            /\ MapHas(models', n)
                            /\ \A v \in SeqToSet(MapGet(patterns', n)) :
                                  v = last'.data[i].value
                                  \/ (MapHas(patterns, n)
                                      /\ SeqHas(MapGet(patterns, n), v))
                   /\ lsTraining' = trainingData'
                   /\ lsPatterns' = patterns'
      ]_vars

\* C21 witness: a learn call stored a numeric value with its noise and a
\* later one spent budget in the privacy step before its update raised
C21_Witness ==
    /\ last.op = "learn" /\ ~last.skipped /\ last.threw
    /\ last.record = R_BadEmail
    /\ usedBudget = 2 * LearnEpsilon
    /\ MapHas(trainingData, N_age)
    /\ MapGet(trainingData, N_age)[1].value = Num(55)
    /\ ~MapHas(trainingData, N_username)


KindOf(fieldName, value) ==
    IF IsNum(value) THEN "numerical"
    ELSE IF ~IsStr(value) THEN "generic"
    ELSE IF \E i \in 1..(Len(fieldName) - 4) :
               SubSeq(fieldName, i, i + 4) = <<"e","m","a","i","l">> THEN "email"
    ELSE IF \E i \in 1..(Len(fieldName) - 4) :
               SubSeq(fieldName, i, i + 4) = <<"p","h","o","n","e">> THEN "phone"
    ELSE IF \E i \in 1..(Len(fieldName) - 3) :
               SubSeq(fieldName, i, i + 3) = <<"d","a","t","e">> THEN "date"
    ELSE "text"

\* C23: the model table has one model for every field name of a record
\* whose learn call completed and for no other name; no two names hold the
\* same model object; and a learn call keeps every model the table already
\* has (same object, same kind) and creates one, of the kind of the value
\* it then sees, for each field that has none.
C23_LazyModels ==
    [][ /\ \A a, b \in SeqToSet(MapKeys(models')) :
              a # b => MapGet(models', a).id # MapGet(models', b).id
        /\ \A k \in SeqToSet(MapKeys(models)) :
              MapHas(models', k) /\ MapGet(models', k) = MapGet(models, k)
        /\ SeqToSet(MapKeys(models')) = SeqToSet(MapKeys(trainingData'))
        /\ IF last'.op = "learn" /\ ~last'.skipped /\ ~last'.threw
           THEN /\ SeqToSet(MapKeys(models'))
                      = SeqToSet(MapKeys(models)) \cup SeqToSet(RecKeys(last'.record))
                /\ \A i \in 1..Len(last'.data) :
                      ~MapHas(models, last'.data[i].name)
                         => MapGet(models', last'.data[i].name).fieldType
                               = KindOf(last'.data[i].name, last'.data[i].value)
           ELSE models' = models
      ]_vars

\* C23 witness: a later learn of `age` with a text value keeps the
\* numerical model the field got first, next to the model of `city`
C23_Witness ==
    /\ last.op = "learn" /\ ~last.skipped /\ ~last.threw
    /\ last.record = R_AgeText
    /\ MapHas(models, N_city)
    /\ MapHas(models, N_age) /\ MapGet(models, N_age).fieldType = "numerical"
    /\ Len(MapGet(trainingData, N_age)) = 2


\* C24: constructed without options where no storage is usable, the
\* predictor starts empty whatever an earlier session saved; a storage read
\* yields nothing (loading restores no pattern and no model), no step
\* changes what is stored, and a learn call still puts its values into the
\* patterns and the training data in memory.
C24_NoStorage ==
    [][ /\ lsTraining' = lsTraining /\ lsPatterns' = lsPatterns
        /\ config' = config /\ ~config.storage
        /\ config.learning /\ config.anonymize
        /\ last'.op = "load"
              => /\ last'.storedPatterns = <<>>
                 /\ patterns' = patterns /\ models' = models
                 /\ trainingData' = trainingData
        /\ (last'.op = "learn" /\ ~last'.threw)
              => /\ ~last'.skipped
                 /\ \A i \in 1..Len(last'.data) :
                      LET n == last'.data[i].name
                          ex == ExamplesOf(trainingData', n)
                      IN  /\ SeqHas(MapGet(patterns', n), last'.data[i].value)
                          /\ Len(ex) = Len(ExamplesOf(trainingData, n)) + 1
                          /\ ex[Len(ex)].value = last'.data[i].value
        /\ (last.op = "init" => trainingData = <<>> /\ patterns = <<>>)
      ]_vars

\* C24 witness: something is saved from an earlier session, a learn call
\* has filled the memory, and loading after it has read nothing
C24_Witness ==
    /\ ~config.storage
    /\ last.op = "load" /\ last.storedPatterns = <<>>
    /\ lsPatterns # <<>> /\ lsTraining # <<>>
    /\ MapHas(patterns, N_age)
    /\ Len(ExamplesOf(trainingData, N_city)) = 1
    /\ Len(ExamplesOf(lsTraining, N_city)) > 1


\* C25: addEdge(from, to) for an ordered pair that has no edge yet adds
\* one entry, with that from and to, to the edge table, and for a pair that
\* has one it leaves the table as it is: one entry per distinct ordered
\* pair, also for field names that contain "-".
C25_DistinctPairs ==
    [][ last'.op = "addEdge"
        => IF EdgesOfPair(edges, last'.from, last'.to) = {}
           THEN /\ Len(edges') = Len(edges) + 1
                /\ EdgesOfPair(edges', last'.from, last'.to) = {Len(edges')}
           ELSE edges' = edges
      ]_vars


\* the setting `name` of the group `group` in the constructor's argument,
\* undefined when the caller did not give it
GivenSetting(group, name) == Prop(Prop(Obj(config.options), group), name)

\* C26: settings the caller does not give keep their defaults: unless
\* prediction.maxSuggestions is given getSuggestions returns at most 3
\* suggestions, and unless privacy.anonymize is given a learn call runs the
\* privacy step.
C26_DefaultsKept ==
    /\ (last.op = "getSuggestions" /\ ~last.threw
        /\ GivenSetting("prediction", "maxSuggestions") = JsUndefined)
          => Len(last.ret) <= maxSuggestions
    /\ (last.op = "learn" /\ ~last.skipped
        /\ GivenSetting("privacy", "anonymize") = JsUndefined)
          => ~last.passThrough /\ last.epsilon = LearnEpsilon

\* C30: with config.learning false a learnFromSubmission call returns at
\* once: privacy budget, training data, patterns, models, graph, profile,
\* prediction cache and what is saved are the same after it as before.
C30_LearningDisabled ==
    [][ (last'.op = "learn" /\ ~config.learning)
        => /\ last'.skipped
           /\ UNCHANGED <<usedBudget, trainingData, patterns, models, nodes,
                          edges, userProfile, predictionCache, lsTraining,
                          lsPatterns, config>>
      ]_vars

\* C30 witness: a learn call on a predictor with learning disabled that
\* has training data, patterns and a cached prediction
C30_Witness ==
    /\ last.op = "learn" /\ last.skipped /\ ~config.learning
    /\ trainingData # <<>> /\ patterns # <<>> /\ predictionCache # <<>>
    /\ lsTraining = trainingData


\* the learned values of a field as text
LearnedTexts(fieldName) ==
    [i \in 1..Len(ExamplesOf(trainingData, fieldName)) |->
        JsToString(ExamplesOf(trainingData, fieldName)[i].value)]

\* the texts of `texts` that start with `partial`, ignoring case
StartingWith(texts, partial) ==
    SelectSeq(texts, LAMBDA t :
        /\ Len(partial) <= Len(t)
        /\ \A i \in 1..Len(partial) : LowerChar(t[i]) = LowerChar(partial[i]))

\* v is one of the most frequent texts of `texts`
MostFrequentIn(v, texts) ==
    /\ SeqHas(texts, v)
    /\ \A i \in 1..Len(texts) : CountOf(texts, texts[i]) <= CountOf(texts, v)

\* C29: for a field with training examples a predict that is not served
\* from the cache has source "training-data" and returns a most frequent
\* one of the learned values that start, ignoring case, with the partial
\* input, or, when the input is empty or no learned value starts with it,
\* a most frequent learned value.
C29_MostFrequentLearned ==
    (last.op = "predict" /\ last.computed
     /\ ExamplesOf(trainingData, last.field.name) # <<>>)
        => LET texts == LearnedTexts(last.field.name)
               starting == StartingWith(texts, last.field.value)
           IN  /\ last.ret.source = "training-data"
               /\ IsStr(last.ret.value)
               /\ MostFrequentIn(last.ret.value.s,
                                 IF starting = <<>> THEN texts ELSE starting)


\* the values of field `fieldName` in the records of `recs`, in order
RECURSIVE ValuesIn(_, _)
ValuesIn(recs, fieldName) ==
    IF recs = <<>> THEN <<>>
    ELSE (IF RecHas(Head(recs), fieldName)
          THEN <<RecGet(Head(recs), fieldName)>> ELSE <<>>)
         \o ValuesIn(Tail(recs), fieldName)

\* the values of the training examples of a field
ExampleValues(fieldName) ==
    [i \in 1..Len(ExamplesOf(trainingData, fieldName)) |->
        ExamplesOf(trainingData, fieldName)[i].value]

AsyncFieldNames == {N_city, N_age}

\* C27: with learnFromSubmission calls in flight together, the training
\* examples of each field are at every moment the values of the first calls
\* started, in the order the calls were started, and once no call is
\* suspended every started call's value is there exactly once.
C27_StartOrder ==
    \A f \in AsyncFieldNames :
        LET have == ExampleValues(f)
            want == ValuesIn(started, f)
        IN  /\ Len(have) <= Len(want)
            /\ have = SubSeq(want, 1, Len(have))
            /\ (\A i \in 1..Len(pending) : pending[i].stage # "store")
                  => have = want

\* C27 witness: two calls were suspended together and both have stored
\* their record; the one started first comes first
C27_Witness ==
    /\ Len(pending) = 2
    /\ pending[1].stage = "done" /\ pending[2].stage = "done"
    /\ started = <<R_Denver, R_Boston>>
    /\ ExampleValues(N_city) = <<Str(V_Denver), Str(V_Boston)>>


\* every example of the training data `td` is among the saved examples of
\* its field
AllSaved(td) ==
    \A i \in 1..Len(td) :
        \A j \in 1..Len(td[i].val) :
            SeqHas(ExamplesOf(lsTraining, td[i].key), td[i].val[j])

\* C28: with two live predictors on the same storage, the saved training
\* data holds every example either of them has learned.
C28_NothingDiscarded ==
    peer.live => AllSaved(trainingData) /\ AllSaved(peer.trainingData)

=============================================================================
